---- MODULE Spec2Model ----
(***************************************************************************)
(* Polling loops of the asynchronous generation services of the SDK:       *)
(* Flux.pollResult, Wan.pollResult and UncensoredAI.pollResult, each with  *)
(* its getResult status check, its onStatusUpdate observer and its sleep.  *)
(*                                                                         *)
(* Several pollResult calls (Runs) are in progress at once.  Every call    *)
(* has its own locals (attempt, result) and its own options.  The provider *)
(* side is a job: the i-th status check of a job is answered by the i-th   *)
(* entry of the job's script, which is chosen when the first call asks for *)
(* it, so that two calls polling the same job see the same answers.        *)
(*                                                                         *)
(* chat.send on its polling routes (flux/, wan/, uncensored-ai/) is the    *)
(* generate call followed by pollResult; UncensoredAI.generate polls by    *)
(* itself before it returns.                                               *)
(*                                                                         *)
(* The stream decoder is the async generator handleStreamingResponse of    *)
(* chat.ts (the GLM, Mistral and NanoBanana services carry the same loop): *)
(* bytes arrive in chunks of any size, are decoded, split into lines and   *)
(* each `data: ` line with a JSON text is yielded to the consumer.         *)
(*                                                                         *)
(* Specifications: Spec (pollResult calls with small maxAttempts),         *)
(* SpecDefaults (pollResult with its default bounds), SpecSend (chat.send  *)
(* to a polling provider), SpecStream (the stream decoder).                *)
(***************************************************************************)
EXTENDS Integers, Sequences, FiniteSets, TLC

\* ------------------------------------------------------------------ bounds
MaxAttemptsBound == 3
CustomInterval == 1000
MaxLines == 2

\* The pollResult calls in progress, and the jobs they poll.
Runs == {1, 2}
Jobs == {1}

\* ------------------------------------------------------- program vocabulary
Providers == {"Flux", "Wan", "UncensoredAI"}

\* JavaScript `undefined` for a string-valued field that is absent.
Undefined == "undefined"

\* `x || fallback` on a string: undefined and the empty string are falsy.
OrElse(x, fallback) == IF x = Undefined \/ x = "" THEN fallback ELSE x

\* The status strings the response types declare.
FluxStatuses == {"Pending", "Running", "Ready", "Failed"}
WanStatuses == {"PENDING", "RUNNING", "SUCCEEDED", "FAILED"}
UncensoredStatuses == {"pending", "processing", "success", "failed", "error"}

StatusVocabulary(p) ==
    CASE p = "Flux" -> FluxStatuses
      [] p = "Wan" -> WanStatuses
      [] p = "UncensoredAI" -> UncensoredStatuses

\* What the wire can carry in the status field: the declared vocabulary, a
\* string outside it (Flux declares `| string`), or nothing at all or an empty
\* string (Wan reads output?.task_status, and output is optional).
WireStatuses(p) ==
    CASE p = "Flux" -> FluxStatuses \cup {"Request Moderated"}
      [] p = "Wan" -> WanStatuses \cup {Undefined, ""}
      [] p = "UncensoredAI" -> UncensoredStatuses

\* The provider's error text on a job: Flux `error`, Wan `output.message`.
\* UncensoredResultResponse declares no such field; whatever the wire
\* carries there is never read by the code.
ErrorDetails == {Undefined, "quota exceeded"}

FailureStatuses == {"Failed", "FAILED", "failed", "error"}

\* A parsed response of getResult.  n is the identity of the response object:
\* the ordinal of the status check that produced it.
Response(s, d, n) == [status |-> s, detail |-> d, n |-> n]
NoResult == Response(Undefined, Undefined, 0)

\* The ways a status check fails: fetch rejects (network), the abort signal
\* fires, or the HTTP status is not OK and getResult throws.
TransportCauses == {"network", "abort", "http"}

\* One answer of the provider to a status check.
Answers(p) ==
    {[ok |-> TRUE, status |-> s, detail |-> d, cause |-> "none"] :
        s \in WireStatuses(p) \ FailureStatuses, d \in {Undefined}}
    \cup
    {[ok |-> TRUE, status |-> s, detail |-> d, cause |-> "none"] :
        s \in WireStatuses(p) \cap FailureStatuses, d \in ErrorDetails}
    \cup
    {[ok |-> FALSE, status |-> Undefined, detail |-> Undefined, cause |-> c] :
        c \in TransportCauses}

\* The answers of a provider that keeps to one in-progress status until the
\* job ends, and whose requests fail in one way.
InProgressLiteral(p) ==
    CASE p = "Flux" -> "Pending" [] p = "Wan" -> "PENDING" [] p = "UncensoredAI" -> "pending"

SteadyAnswers(p) ==
    {a \in Answers(p) :
        \/ /\ a.ok
           /\ a.detail = Undefined
           /\ a.status \in {InProgressLiteral(p), "Ready", "SUCCEEDED", "success",
                             "Failed", "FAILED", "failed"}
        \/ ~ a.ok /\ a.cause = "network"}

\* ------------------------------------------------------------------ options
DefaultInterval(p) == IF p = "Wan" THEN 5000 ELSE 3000
DefaultMaxAttempts(p) == IF p = "Wan" THEN 120 ELSE 60

\* PollingOptions: has is the set of keys the caller supplied
\* (interval, maxAttempts, onStatusUpdate).
interval(p, o) == IF "interval" \in o.has THEN o.interval ELSE DefaultInterval(p)
maxAttempts(p, o) ==
    IF "maxAttempts" \in o.has THEN o.maxAttempts ELSE DefaultMaxAttempts(p)
onStatusUpdate(o) == "onStatusUpdate" \in o.has

\* ----------------------------------------------------------- loop decisions
\* The status handed to the observer and compared with the literals.
ObservedStatus(p, res) ==
    IF p = "Wan" THEN OrElse(res.status, "UNKNOWN") ELSE res.status

SuccessLiteral(p) ==
    CASE p = "Flux" -> "Ready" [] p = "Wan" -> "SUCCEEDED" [] p = "UncensoredAI" -> "success"

FailureLiteral(p) ==
    CASE p = "Flux" -> "Failed" [] p = "Wan" -> "FAILED" [] p = "UncensoredAI" -> "failed"

IsSuccess(p, res) == ObservedStatus(p, res) = SuccessLiteral(p)
IsFailed(p, res) == ObservedStatus(p, res) = FailureLiteral(p)

\* The text interpolated into the generation-failed error.
FailureMessage(p, res) ==
    IF p = "UncensoredAI" THEN res.status ELSE OrElse(res.detail, "Unknown error")

\* Mutant of SleepsAfter: the sleep is not guarded, so it also follows the
\* last attempt.
SleepsAfterEveryAttempt(a, max) == a <= max

\* `if (attempt < maxAttempts) await this.sleep(interval)`
SleepsAfter(a, max) == a < max

\* Mutant of LoopContinues: the loop admits one attempt past maxAttempts.
LoopContinuesOnceMore(a, max) == a <= max + 1

\* `attempt <= maxAttempts`, the loop condition
LoopContinues(a, max) == a <= max

\* ----------------------------------------------------------------- outcomes
Outcome(k, d, n, v) == [kind |-> k, detail |-> d, attempts |-> n, value |-> v]
Unsettled == Outcome("unsettled", "", 0, NoResult)
Returned(v) == Outcome("returned", "", 0, v)
GenerationFailed(msg) == Outcome("generation-failed", msg, 0, NoResult)
TimedOut(n) == Outcome("timed-out", "", n, NoResult)
TransportError(c) == Outcome("transport-error", c, 0, NoResult)
CallbackError == Outcome("callback-error", "", 0, NoResult)

\* -------------------------------------------------------------------- state
VARIABLES
    provider,   \* provider[r]: the service the call was made on
    options,    \* options[r]: the PollingOptions of the call
    job,        \* job[r]: the job (pollingUrl / taskId / requestId) polled
    script,     \* script[j]: the provider's answers to the checks of job j
    pc,         \* pc[r]: where the call stands
    attempt,    \* attempt[r]: the loop variable
    result,     \* result[r]: the local `result` of the current attempt
    checks,     \* checks[r]: status checks (getResult calls) issued
    sleeps,     \* sleeps[r]: sleeps started
    slept,      \* slept[r]: milliseconds of sleep requested in total
    observed,   \* observed[r]: the onStatusUpdate invocations, in order
    outcome,    \* outcome[r]: how the call settled
    endpoint,   \* endpoint[r]: the endpoint argument (UncensoredAI only)
    base,       \* base[r]: status checks the job had answered before the call
    offered,    \* offered[r]: the answers the provider may give to the call
    timing      \* the clock (ms) and the abort timers armed so far

\* chat.send and the generate call it makes.
VARIABLES
    parsed,     \* parseModelName(request.model): provider and modelName
    sendPc,     \* where chat.send stands
    posts,      \* the POST requests issued by generate
    sendOutcome \* how chat.send settled

\* The generator of a streaming response and the stream it reads.
VARIABLES
    wire,       \* the bytes of the response body
    sent,       \* how many of them reader.read() has delivered
    gen,        \* the generator: created, reading, suspended (at a yield), ended
    exit,       \* how the generator ended
    buffer,     \* `buffer`
    held,       \* bytes of an incomplete character held by the TextDecoder
    lines,      \* the lines of `lines` the for loop has not reached yet
    yielded,    \* the chunks yielded to the consumer, in order
    acquired,   \* getReader() calls that returned a reader
    released,   \* reader.releaseLock() calls
    seam,       \* where the last chunk boundary inside a line fell (history)
    other       \* a second invocation of the generator: its own locals

\* The client, the request passed to its chat.send, and what send does on
\* the routes that do not poll.
VARIABLES
    clientConfig, \* the config passed to `new EternalAI(config)`
    client,       \* the outcome of the constructor
    request,      \* the request passed to chat.send: model and stream
    clientPc,     \* where the constructor and chat.send stand
    calls,        \* the backend calls chat.send has made, in order
    signals,      \* the `signal` of every fetch issued, in order
    response,     \* the response the fetch of the standard route resolved with
    settled       \* how the promise of chat.send settled

streamVars == <<wire, sent, gen, exit, buffer, held, lines, yielded, acquired,
                released, seam, other>>

pollVars == <<provider, options, job, script, pc, attempt, result, checks, sleeps,
              slept, observed, outcome, endpoint, base, offered, timing>>
sendVars == <<parsed, sendPc, posts, sendOutcome>>
clientVars == <<clientConfig, client, request, clientPc, calls, signals, response,
                settled>>
others == <<sendVars, streamVars, clientVars>>
vars == <<pollVars, others>>

config == <<provider, options, job, endpoint, base, offered, timing>>

\* No time has passed and no timer is armed.
NoTiming == [now |-> 0, timers |-> <<>>]

\* The endpoint parameter of UncensoredAI.generate, getResult and pollResult;
\* the other services have none.
Endpoints == {"uncensored-image", "uncensored-video"}
DefaultEndpoint(p) == IF p = "UncensoredAI" THEN "uncensored-image" ELSE Undefined

\* chat.send has not been called.
NoRequest == [provider |-> Undefined, modelName |-> Undefined]
NoSend ==
    /\ parsed = NoRequest
    /\ sendPc = "unused"
    /\ posts = 0
    /\ sendOutcome = Unsettled

\* The locals of a generator invocation and the stream it reads.
Invocation(w, g) ==
    [wire |-> w, sent |-> 0, gen |-> g, exit |-> "none", buffer |-> <<>>,
     held |-> <<>>, lines |-> <<>>, yielded |-> <<>>, acquired |-> 0, released |-> 0]

\* No response is being streamed.
NoStream ==
    /\ other = Invocation(<<>>, "unused")
    /\ wire = <<>>
    /\ sent = 0
    /\ gen = "unused"
    /\ exit = "none"
    /\ buffer = <<>>
    /\ held = <<>>
    /\ lines = <<>>
    /\ yielded = <<>>
    /\ acquired = 0
    /\ released = 0
    /\ seam = "none"

\* No client is constructed.
NoClient ==
    /\ clientConfig = [has |-> {}, apiKey |-> "", timeout |-> 0]
    /\ client = [state |-> "unused", chat |-> Undefined, error |-> ""]
    /\ request = [has |-> {}, model |-> <<>>, stream |-> FALSE]
    /\ clientPc = "unused"
    /\ calls = <<>>
    /\ signals = <<>>
    /\ response = [received |-> FALSE, ok |-> FALSE, body |-> FALSE]
    /\ settled = [kind |-> "pending", error |-> ""]

OptionSets ==
    {[has |-> h, interval |-> i, maxAttempts |-> m] :
        h \in {{"maxAttempts"} \cup x : x \in SUBSET {"interval", "onStatusUpdate"}},
        i \in {CustomInterval},
        m \in -1..MaxAttemptsBound}

\* Two calls on one service polling one job with the same interval and
\* maxAttempts: the first without an observer, the second with or without.
Init ==
    /\ \E p \in Providers : provider = [r \in Runs |-> p]
    /\ options \in [Runs -> OptionSets]
    /\ ~ onStatusUpdate(options[1])
    /\ \A r \in Runs :
          /\ options[r].maxAttempts = options[1].maxAttempts
          /\ ("interval" \in options[r].has) = ("interval" \in options[1].has)
    /\ job = [r \in Runs |-> 1]
    /\ script = [j \in Jobs |-> <<>>]
    /\ pc = [r \in Runs |-> "idle"]
    /\ attempt = [r \in Runs |-> 0]
    /\ result = [r \in Runs |-> NoResult]
    /\ checks = [r \in Runs |-> 0]
    /\ sleeps = [r \in Runs |-> 0]
    /\ slept = [r \in Runs |-> 0]
    /\ observed = [r \in Runs |-> <<>>]
    /\ outcome = [r \in Runs |-> Unsettled]
    /\ endpoint = [r \in Runs |-> DefaultEndpoint(provider[r])]
    /\ base = [r \in Runs |-> 0]
    /\ offered = [r \in Runs |-> Answers(provider[r])]
    /\ NoSend
    /\ NoStream
    /\ NoClient
    /\ timing = NoTiming

\* ------------------------------------------------------------------ actions
\* Each action is one step of one call.  The calls share one thread, so the
\* steps of different calls interleave only at the awaits; the model lets
\* them interleave at every step, which adds no behaviour of a single call.
Max(r) == maxAttempts(provider[r], options[r])
Interval(r) == interval(provider[r], options[r])

\* Mutant of LoopHead: the loop condition is tested after the body, as in a
\* do-while loop, so the first status check is always made.
LoopHeadTestedAfter(r, a) ==
    /\ attempt' = [attempt EXCEPT ![r] = a]
    /\ IF a = 1 \/ LoopContinues(a, Max(r))
       THEN /\ pc' = [pc EXCEPT ![r] = "getResult"]
            /\ checks' = [checks EXCEPT ![r] = @ + 1]
            /\ UNCHANGED outcome
       ELSE /\ pc' = [pc EXCEPT ![r] = "done"]
            /\ outcome' = [outcome EXCEPT ![r] = TimedOut(Max(r))]
            /\ UNCHANGED checks

\* The head of the for loop with the loop variable at a: either the next
\* status check is issued (getResult calls fetch before its first await) or
\* the loop is left and the timed-out error is thrown.
LoopHead(r, a) ==
    /\ attempt' = [attempt EXCEPT ![r] = a]
    /\ IF LoopContinues(a, Max(r))
       THEN /\ pc' = [pc EXCEPT ![r] = "getResult"]
            /\ checks' = [checks EXCEPT ![r] = @ + 1]
            /\ UNCHANGED outcome
       ELSE /\ pc' = [pc EXCEPT ![r] = "done"]
            /\ outcome' = [outcome EXCEPT ![r] = TimedOut(Max(r))]
            /\ UNCHANGED checks

\* pollResult is called: options are destructured, attempt = 1.
pollResult(r) ==
    /\ pc[r] = "idle"
    /\ LoopHead(r, 1)
    /\ UNCHANGED <<config, others, script, result, sleeps, slept, observed>>

\* The provider's answer a to the status check the call has in flight: the
\* script's entry for that check, chosen now if no call was answered it yet.
Answered(r, a) ==
    /\ pc[r] = "getResult"
    /\ a \in offered[r]
    /\ IF Len(script[job[r]]) < base[r] + checks[r]
       THEN script' = [script EXCEPT ![job[r]] = Append(@, a)]
       ELSE a = script[job[r]][base[r] + checks[r]] /\ UNCHANGED script

\* Mutant of getResultResolves: the observer is told only of statuses that
\* do not end the loop (the terminal checks come first).
getResultResolvesTerminalFirst(r) ==
    \E a \in Answers(provider[r]) :
        /\ Answered(r, a)
        /\ a.ok
        /\ result' = [result EXCEPT ![r] = Response(a.status, a.detail, checks[r])]
        /\ pc' = [pc EXCEPT ![r] =
                     IF a.status \in {SuccessLiteral(provider[r]), FailureLiteral(provider[r])}
                     THEN "decide" ELSE "notify"]
        /\ UNCHANGED <<config, others, attempt, checks, sleeps, slept, observed, outcome>>

\* getResult resolves with the parsed response.
getResultResolves(r) ==
    \E a \in Answers(provider[r]) :
        /\ Answered(r, a)
        /\ a.ok
        /\ result' = [result EXCEPT ![r] = Response(a.status, a.detail, checks[r])]
        /\ pc' = [pc EXCEPT ![r] = "notify"]
        /\ UNCHANGED <<config, others, attempt, checks, sleeps, slept, observed, outcome>>

\* Mutant of getResultRejects: the rejection is caught and the attempt counts
\* as one that found the job still running.
getResultRejectsSwallowed(r) ==
    \E a \in Answers(provider[r]) :
        /\ Answered(r, a)
        /\ ~ a.ok
        /\ result' = [result EXCEPT ![r] = NoResult]
        /\ pc' = [pc EXCEPT ![r] = "decide"]
        /\ UNCHANGED <<config, others, attempt, checks, sleeps, slept, observed, outcome>>

\* getResult rejects; the await in pollResult rethrows.
getResultRejects(r) ==
    \E a \in Answers(provider[r]) :
        /\ Answered(r, a)
        /\ ~ a.ok
        /\ outcome' = [outcome EXCEPT ![r] = TransportError(a.cause)]
        /\ pc' = [pc EXCEPT ![r] = "done"]
        /\ UNCHANGED <<config, others, attempt, result, checks, sleeps, slept, observed>>

\* `if (onStatusUpdate)` is false.
NoObserver(r) ==
    /\ pc[r] = "notify"
    /\ ~ onStatusUpdate(options[r])
    /\ pc' = [pc EXCEPT ![r] = "decide"]
    /\ UNCHANGED <<config, others, script, attempt, result, checks, sleeps, slept, observed,
                   outcome>>

\* Mutant of Observation: the attempt is reported 0-based.
ObservationZeroBased(r) == <<ObservedStatus(provider[r], result[r]), attempt[r] - 1>>

\* The call made to the observer.
Observation(r) == <<ObservedStatus(provider[r], result[r]), attempt[r]>>

\* onStatusUpdate(status, attempt) is invoked and returns.
ObserverReturns(r) ==
    /\ pc[r] = "notify"
    /\ onStatusUpdate(options[r])
    /\ observed' = [observed EXCEPT ![r] = Append(@, Observation(r))]
    /\ pc' = [pc EXCEPT ![r] = "decide"]
    /\ UNCHANGED <<config, others, script, attempt, result, checks, sleeps, slept, outcome>>

\* onStatusUpdate(status, attempt) is invoked and throws: nothing in
\* pollResult catches it.
ObserverThrows(r) ==
    /\ pc[r] = "notify"
    /\ onStatusUpdate(options[r])
    /\ observed' = [observed EXCEPT ![r] = Append(@, Observation(r))]
    /\ outcome' = [outcome EXCEPT ![r] = CallbackError]
    /\ pc' = [pc EXCEPT ![r] = "done"]
    /\ UNCHANGED <<config, others, script, attempt, result, checks, sleeps, slept>>

\* `return result`
ReturnResult(r) ==
    /\ pc[r] = "decide"
    /\ IsSuccess(provider[r], result[r])
    /\ outcome' = [outcome EXCEPT ![r] = Returned(result[r])]
    /\ pc' = [pc EXCEPT ![r] = "done"]
    /\ UNCHANGED <<config, others, script, attempt, result, checks, sleeps, slept, observed>>

\* `throw new Error(... failed: ...)`
ThrowFailed(r) ==
    /\ pc[r] = "decide"
    /\ ~ IsSuccess(provider[r], result[r])
    /\ IsFailed(provider[r], result[r])
    /\ outcome' = [outcome EXCEPT ![r] =
                      GenerationFailed(FailureMessage(provider[r], result[r]))]
    /\ pc' = [pc EXCEPT ![r] = "done"]
    /\ UNCHANGED <<config, others, script, attempt, result, checks, sleeps, slept, observed>>

\* Neither literal matched and attempts remain: sleep(interval) starts.
StartSleep(r) ==
    /\ pc[r] = "decide"
    /\ ~ IsSuccess(provider[r], result[r])
    /\ ~ IsFailed(provider[r], result[r])
    /\ SleepsAfter(attempt[r], Max(r))
    /\ sleeps' = [sleeps EXCEPT ![r] = @ + 1]
    /\ slept' = [slept EXCEPT ![r] = @ + Interval(r)]
    /\ pc' = [pc EXCEPT ![r] = "sleep"]
    /\ UNCHANGED <<config, others, script, attempt, result, checks, observed, outcome>>

\* Neither literal matched on the last attempt: attempt++ without a sleep.
SkipSleep(r) ==
    /\ pc[r] = "decide"
    /\ ~ IsSuccess(provider[r], result[r])
    /\ ~ IsFailed(provider[r], result[r])
    /\ ~ SleepsAfter(attempt[r], Max(r))
    /\ LoopHead(r, attempt[r] + 1)
    /\ UNCHANGED <<config, others, script, result, sleeps, slept, observed>>

\* Mutant of SleepElapses: the timer's firing advances the loop variable by
\* two.
SleepElapsesSkipping(r) ==
    /\ pc[r] = "sleep"
    /\ LoopHead(r, attempt[r] + 2)
    /\ UNCHANGED <<config, others, script, result, sleeps, slept, observed>>

\* The timer of sleep fires: attempt++ and the loop condition is tested.
SleepElapses(r) ==
    /\ pc[r] = "sleep"
    /\ LoopHead(r, attempt[r] + 1)
    /\ UNCHANGED <<config, others, script, result, sleeps, slept, observed>>

Next ==
    \E r \in Runs :
        \/ pollResult(r)
        \/ getResultResolves(r)
        \/ getResultRejects(r)
        \/ NoObserver(r)
        \/ ObserverReturns(r)
        \/ ObserverThrows(r)
        \/ ReturnResult(r)
        \/ ThrowFailed(r)
        \/ StartSleep(r)
        \/ SkipSleep(r)
        \/ SleepElapses(r)

Spec == Init /\ [][Next]_vars

\* A step of call r once it has been made: the answer of the status check it
\* awaits, the observer's return or throw, the branch taken on the status,
\* or the firing of the sleep's timer.
Step(r) ==
    \/ getResultResolves(r)
    \/ getResultRejects(r)
    \/ NoObserver(r)
    \/ ObserverReturns(r)
    \/ ObserverThrows(r)
    \/ ReturnResult(r)
    \/ ThrowFailed(r)
    \/ StartSleep(r)
    \/ SkipSleep(r)
    \/ SleepElapses(r)

\* Every awaited status check settles, every sleep's timer fires and the
\* synchronous code between two awaits runs to completion: a call that can
\* take a step eventually takes one.  Making the call is left to the caller.
\* The largest maxAttempts of the calls whose termination is examined.
MaxAttemptsLive == 2

\* The calls whose termination is examined: both are given an interval, the
\* second an observer as well; maxAttempts ranges over 0..MaxAttemptsLive.
InitLive ==
    /\ Init
    /\ \A r \in Runs : options[r].maxAttempts <= MaxAttemptsLive
    /\ \A r \in Runs : "interval" \in options[r].has
    /\ onStatusUpdate(options[2])

SpecLive == InitLive /\ [][Next]_vars /\ \A r \in Runs : WF_vars(Step(r))

\* ------------------------------------------- pollResult without its bounds
\* One call of pollResult that supplies neither interval nor maxAttempts, on
\* any service and, for UncensoredAI, either endpoint; the provider is steady.
InitDefaults ==
    /\ provider \in [Runs -> Providers]
    /\ provider[2] = provider[1]
    /\ options \in [Runs -> {[has |-> h, interval |-> 0, maxAttempts |-> 0] :
                                h \in SUBSET {"onStatusUpdate"}}]
    /\ options[2] = options[1]
    /\ endpoint \in [Runs -> Endpoints \cup {Undefined}]
    /\ endpoint[2] = endpoint[1]
    /\ (endpoint[1] \in Endpoints) = (provider[1] = "UncensoredAI")
    /\ job = [r \in Runs |-> 1]
    /\ script = [j \in Jobs |-> <<>>]
    /\ pc = [r \in Runs |-> IF r = 1 THEN "idle" ELSE "unused"]
    /\ attempt = [r \in Runs |-> 0]
    /\ result = [r \in Runs |-> NoResult]
    /\ checks = [r \in Runs |-> 0]
    /\ sleeps = [r \in Runs |-> 0]
    /\ slept = [r \in Runs |-> 0]
    /\ observed = [r \in Runs |-> <<>>]
    /\ outcome = [r \in Runs |-> Unsettled]
    /\ base = [r \in Runs |-> 0]
    /\ offered = [r \in Runs |-> SteadyAnswers(provider[r])]
    /\ NoSend
    /\ NoStream
    /\ NoClient
    /\ timing = NoTiming

SpecDefaults == InitDefaults /\ [][Next]_vars

\* ------------------------------------------ chat.send to a polling provider
\* parseModelName of the models that chat.send routes to a polling service.
PollingRequests ==
    {[provider |-> "flux", modelName |-> "flux-2-pro"],
     [provider |-> "wan", modelName |-> "wan2.5-t2v-preview"],
     [provider |-> "uncensored-ai", modelName |-> "uncensored-image"],
     [provider |-> "uncensored-ai", modelName |-> "uncensored-video"]}

\* this.flux, this.wan, this.uncensoredAI
ServiceOf(prefix) ==
    CASE prefix = "flux" -> "Flux"
      [] prefix = "wan" -> "Wan"
      [] prefix = "uncensored-ai" -> "UncensoredAI"

\* `x || fallback` on a number: undefined and 0 are falsy.
NumberOrElse(o, key, x, fallback) == IF key \in o.has /\ x # 0 THEN x ELSE fallback

\* finalPollingOptions of UncensoredAI.generate(request, e, o): both bounds
\* are always set, onStatusUpdate is the caller's.
finalPollingOptions(e, o) ==
    [has |-> {"interval", "maxAttempts"} \cup (o.has \cap {"onStatusUpdate"}),
     interval |-> NumberOrElse(o, "interval", o.interval,
                               IF e = "uncensored-video" THEN 5000 ELSE 3000),
     maxAttempts |-> NumberOrElse(o, "maxAttempts", o.maxAttempts,
                                  IF e = "uncensored-video" THEN 120 ELSE 60)]

\* `pollingOptions: PollingOptions = {}`
EmptyOptions == [has |-> {}, interval |-> 0, maxAttempts |-> 0]

\* The options chat.send passes to pollResult on each route.
SendOptions(m) ==
    CASE m.provider = "flux" ->
           [has |-> {"interval", "maxAttempts", "onStatusUpdate"},
            interval |-> 3000, maxAttempts |-> 60]
      [] m.provider = "wan" ->
           [has |-> {"onStatusUpdate"}, interval |-> 0, maxAttempts |-> 0]
      [] m.provider = "uncensored-ai" ->
           [has |-> {"interval", "maxAttempts", "onStatusUpdate"},
            interval |-> IF m.modelName = "uncensored-video" THEN 5000 ELSE 3000,
            maxAttempts |-> IF m.modelName = "uncensored-video" THEN 120 ELSE 60]

\* How generate's POST can end without an identifier of the job: fetch
\* rejects, the status is not OK, or the body carries no identifier.
PostFailures == {"network", "http", "no-id"}

\* Call 1 is the pollResult inside UncensoredAI.generate, call 2 the
\* pollResult that chat.send itself makes.
InitSend ==
    /\ parsed \in PollingRequests
    /\ sendPc = "idle"
    /\ posts = 0
    /\ sendOutcome = Unsettled
    /\ provider = [r \in Runs |-> ServiceOf(parsed.provider)]
    /\ options = [r \in Runs |-> EmptyOptions]
    /\ endpoint = [r \in Runs |-> DefaultEndpoint(provider[r])]
    /\ job = [r \in Runs |-> 1]
    /\ script = [j \in Jobs |-> <<>>]
    /\ pc = [r \in Runs |-> "unused"]
    /\ attempt = [r \in Runs |-> 0]
    /\ result = [r \in Runs |-> NoResult]
    /\ checks = [r \in Runs |-> 0]
    /\ sleeps = [r \in Runs |-> 0]
    /\ slept = [r \in Runs |-> 0]
    /\ observed = [r \in Runs |-> <<>>]
    /\ outcome = [r \in Runs |-> Unsettled]
    /\ base = [r \in Runs |-> 0]
    /\ offered = [r \in Runs |-> SteadyAnswers(provider[r])]
    /\ NoStream
    /\ NoClient
    /\ timing = NoTiming

\* pollResult(id, e, o) is called as call r on a job that has answered b
\* status checks so far.
CallPollResult(r, e, o, b) ==
    /\ pc[r] = "unused"
    /\ options' = [options EXCEPT ![r] = o]
    /\ endpoint' = [endpoint EXCEPT ![r] = e]
    /\ base' = [base EXCEPT ![r] = b]
    /\ attempt' = [attempt EXCEPT ![r] = 1]
    /\ IF LoopContinues(1, maxAttempts(provider[r], o))
       THEN /\ pc' = [pc EXCEPT ![r] = "getResult"]
            /\ checks' = [checks EXCEPT ![r] = @ + 1]
            /\ UNCHANGED outcome
       ELSE /\ pc' = [pc EXCEPT ![r] = "done"]
            /\ outcome' = [outcome EXCEPT ![r] = TimedOut(maxAttempts(provider[r], o))]
            /\ UNCHANGED checks
    /\ UNCHANGED <<provider, job, offered, script, result, sleeps, slept, observed, timing>>

\* chat.send is called: it calls generate, which issues its POST.
send ==
    /\ sendPc = "idle"
    /\ sendPc' = "generate"
    /\ posts' = posts + 1
    /\ UNCHANGED <<pollVars, streamVars, clientVars, parsed, sendOutcome>>

\* The POST fails or its response names no job: generate throws and send
\* rejects.
generateThrows ==
    /\ sendPc = "generate"
    /\ \E c \in PostFailures : sendOutcome' = TransportError(c)
    /\ sendPc' = "done"
    /\ UNCHANGED <<pollVars, streamVars, clientVars, parsed, posts>>

\* Flux.generate / Wan.generate return the task; send calls pollResult.
generateReturnsTask ==
    /\ sendPc = "generate"
    /\ parsed.provider \in {"flux", "wan"}
    /\ CallPollResult(2, Undefined, SendOptions(parsed), 0)
    /\ sendPc' = "poll"
    /\ UNCHANGED <<streamVars, clientVars, parsed, posts, sendOutcome>>

\* UncensoredAI.generate has its request_id and goes on to poll: send passes
\* neither endpoint nor pollingOptions.
generateAutoPolls ==
    /\ sendPc = "generate"
    /\ parsed.provider = "uncensored-ai"
    /\ CallPollResult(1, DefaultEndpoint("UncensoredAI"),
                      finalPollingOptions(DefaultEndpoint("UncensoredAI"), EmptyOptions), 0)
    /\ sendPc' = "generate-poll"
    /\ UNCHANGED <<streamVars, clientVars, parsed, posts, sendOutcome>>

\* The pollResult inside generate rejects: so do generate and send.
generateRejects ==
    /\ sendPc = "generate-poll"
    /\ pc[1] = "done"
    /\ outcome[1].kind # "returned"
    /\ sendOutcome' = outcome[1]
    /\ sendPc' = "done"
    /\ UNCHANGED <<pollVars, streamVars, clientVars, parsed, posts>>

\* The result generate returned carries no request_id: send throws.
sendThrowsNoRequestId ==
    /\ sendPc = "generate-poll"
    /\ pc[1] = "done"
    /\ outcome[1].kind = "returned"
    /\ sendOutcome' = TransportError("no-id")
    /\ sendPc' = "done"
    /\ UNCHANGED <<pollVars, streamVars, clientVars, parsed, posts>>

\* generate returns the final result of its poll; send takes its request_id
\* and calls pollResult with the endpoint named by the model.
generateReturnsResult ==
    /\ sendPc = "generate-poll"
    /\ pc[1] = "done"
    /\ outcome[1].kind = "returned"
    /\ CallPollResult(2, parsed.modelName, SendOptions(parsed), base[1] + checks[1])
    /\ sendPc' = "poll"
    /\ UNCHANGED <<streamVars, clientVars, parsed, posts, sendOutcome>>

\* send's pollResult returns: send builds the ChatCompletionResponse.
sendReturns ==
    /\ sendPc = "poll"
    /\ pc[2] = "done"
    /\ outcome[2].kind = "returned"
    /\ sendOutcome' = outcome[2]
    /\ sendPc' = "done"
    /\ UNCHANGED <<pollVars, streamVars, clientVars, parsed, posts>>

\* send's pollResult rejects: so does send.
sendRejects ==
    /\ sendPc = "poll"
    /\ pc[2] = "done"
    /\ outcome[2].kind # "returned"
    /\ sendOutcome' = outcome[2]
    /\ sendPc' = "done"
    /\ UNCHANGED <<pollVars, streamVars, clientVars, parsed, posts>>

\* The observer chat.send supplies is a console.log: it returns.
SendNext ==
    \/ send
    \/ generateThrows
    \/ generateReturnsTask
    \/ generateAutoPolls
    \/ generateRejects
    \/ sendThrowsNoRequestId
    \/ generateReturnsResult
    \/ sendReturns
    \/ sendRejects
    \/ \E r \in Runs :
          \/ getResultResolves(r)
          \/ getResultRejects(r)
          \/ NoObserver(r)
          \/ ObserverReturns(r)
          \/ ReturnResult(r)
          \/ ThrowFailed(r)
          \/ StartSleep(r)
          \/ SkipSleep(r)
          \/ SleepElapses(r)

SpecSend == InitSend /\ [][SendNext]_vars

\* ------------------------------------------------------------ stream decoder
\* Text is a sequence of characters and a chunk a sequence of bytes; an ASCII
\* character and its byte are written alike, and the one two-byte character
\* of the modelled bodies is "é" = C3 A9.
LeadByte == "C3"
ContinuationByte == "A9"
ReplacementChar == "U+FFFD"

Drop(s, n) == SubSeq(s, n + 1, Len(s))

\* TextDecoder.decode(value, {stream: true}) on the bytes the decoder holds
\* back (held) followed by value: the text, and the bytes of an incomplete
\* character at the end, which are held back for the next call.
decode(bytes) ==
    LET n == Len(bytes)
        \* A continuation byte that completes the lead byte before it.
        Continues(i) == i > 1 /\ bytes[i] = ContinuationByte /\ bytes[i - 1] = LeadByte
        \* A lead byte at the end of the chunk waits for the next chunk.
        Incomplete(i) == i = n /\ bytes[i] = LeadByte
        Starts(i) == ~Continues(i) /\ ~Incomplete(i)
        CharAt(i) ==
            IF bytes[i] = LeadByte
            THEN IF bytes[i + 1] = ContinuationByte THEN "é" ELSE ReplacementChar
            ELSE IF bytes[i] = ContinuationByte THEN ReplacementChar ELSE bytes[i]
        starts == SelectSeq([i \in 1..n |-> i], Starts)
    IN  [text |-> [k \in 1..Len(starts) |-> CharAt(starts[k])],
         held |-> IF n > 0 /\ bytes[n] = LeadByte THEN <<LeadByte>> ELSE <<>>]

\* buffer.split('\n'): the pieces between the newlines, at least one.
RECURSIVE split(_)
split(text) ==
    IF \A i \in 1..Len(text) : text[i] # "\n" THEN <<text>>
    ELSE LET i == CHOOSE k \in 1..Len(text) :
                      text[k] = "\n" /\ \A j \in 1..(k - 1) : text[j] # "\n"
         IN  <<SubSeq(text, 1, i - 1)>> \o split(Drop(text, i))

\* String.prototype.trim on the characters of the modelled bodies.
WhiteSpace == {" ", "\t", "\r", "\n"}

RECURSIVE trimStart(_)
trimStart(s) ==
    IF s # <<>> /\ Head(s) \in WhiteSpace THEN trimStart(Tail(s)) ELSE s

RECURSIVE trimEnd(_)
trimEnd(s) ==
    IF s # <<>> /\ s[Len(s)] \in WhiteSpace THEN trimEnd(SubSeq(s, 1, Len(s) - 1)) ELSE s

trim(s) == trimEnd(trimStart(s))

startsWith(s, prefix) == Len(s) >= Len(prefix) /\ SubSeq(s, 1, Len(prefix)) = prefix

DataPrefix == <<"d", "a", "t", "a", ":", " ">>
DoneLine == DataPrefix \o <<"[", "D", "O", "N", "E", "]">>

\* JSON.parse on the grammar of the modelled bodies: objects, arrays, strings
\* without escapes, integers, true, false and null, with white space between
\* the tokens.  The text is read character by character: mode is what may
\* come next, open the brackets and braces not yet closed, value the text of
\* the value without the white space between its tokens, want the rest of a
\* literal being read.
Digits == {"0", "1", "2", "3", "4", "5", "6", "7", "8", "9"}
Literals == {<<"t", "r", "u", "e">>, <<"f", "a", "l", "s", "e">>, <<"n", "u", "l", "l">>}

ParserStart == [mode |-> "value", open |-> <<>>, value |-> <<>>, want |-> <<>>]
SyntaxError == [mode |-> "error", open |-> <<>>, value |-> <<>>, want |-> <<>>]

Top(open) == IF open = <<>> THEN "" ELSE open[Len(open)]
Pop(open) == SubSeq(open, 1, Len(open) - 1)

\* The parser p reads the character c.
parseChar(p, c) ==
    LET go(m) == [p EXCEPT !.mode = m, !.value = @ \o <<c>>]
        \* c where a value may start
        start ==
            CASE c = "{" -> [go("key-or-end") EXCEPT !.open = @ \o <<"{">>]
              [] c = "[" -> [go("value-or-end") EXCEPT !.open = @ \o <<"[">>]
              [] c = "\"" -> go("string")
              [] c = "0" -> go("zero")
              [] c \in Digits \ {"0"} -> go("number")
              [] c = "-" -> go("minus")
              [] \E l \in Literals : Head(l) = c ->
                   [go("literal") EXCEPT !.want = Tail(CHOOSE l \in Literals : Head(l) = c)]
              [] OTHER -> SyntaxError
        \* c after a complete value
        after ==
            CASE c = "," /\ Top(p.open) = "[" -> go("value")
              [] c = "," /\ Top(p.open) = "{" -> go("key")
              [] c = "]" /\ Top(p.open) = "[" -> [go("after") EXCEPT !.open = Pop(@)]
              [] c = "}" /\ Top(p.open) = "{" -> [go("after") EXCEPT !.open = Pop(@)]
              [] OTHER -> SyntaxError
        inString(m) ==
            CASE c = "\"" -> go(m)
              [] c \in {"\n", "\r", "\t", "\\"} -> SyntaxError
              [] OTHER -> go(p.mode)
    IN  CASE p.mode = "error" -> SyntaxError
          [] p.mode = "string" -> inString("after")
          [] p.mode = "keystring" -> inString("colon")
          [] p.mode = "literal" ->
               IF c = Head(p.want)
               THEN [go(IF Len(p.want) = 1 THEN "after" ELSE "literal") EXCEPT !.want = Tail(@)]
               ELSE SyntaxError
          [] p.mode = "minus" ->
               IF c = "0" THEN go("zero")
               ELSE IF c \in Digits THEN go("number") ELSE SyntaxError
          [] p.mode = "number" /\ c \in Digits -> go("number")
          [] p.mode = "zero" /\ c \in Digits -> SyntaxError
          [] c \in WhiteSpace ->
               IF p.mode \in {"number", "zero"} THEN [p EXCEPT !.mode = "after"] ELSE p
          [] p.mode \in {"number", "zero", "after"} -> after
          [] p.mode = "value" -> start
          [] p.mode = "value-or-end" ->
               IF c = "]" THEN [go("after") EXCEPT !.open = Pop(@)] ELSE start
          [] p.mode = "key-or-end" ->
               IF c = "}" THEN [go("after") EXCEPT !.open = Pop(@)]
               ELSE IF c = "\"" THEN go("keystring") ELSE SyntaxError
          [] p.mode = "key" -> IF c = "\"" THEN go("keystring") ELSE SyntaxError
          [] p.mode = "colon" -> IF c = ":" THEN go("value") ELSE SyntaxError

RECURSIVE parseFrom(_, _)
parseFrom(p, s) == IF s = <<>> THEN p ELSE parseFrom(parseChar(p, Head(s)), Tail(s))

Complete(p) == p.mode \in {"after", "number", "zero"} /\ p.open = <<>>

\* JSON.parse(data): the value, or a SyntaxError.
JSONparse(data) ==
    IF Complete(parseFrom(ParserStart, data))
    THEN [ok |-> TRUE, value |-> parseFrom(ParserStart, data).value]
    ELSE [ok |-> FALSE, value |-> <<>>]

\* What the body of the for loop does with one line of the buffer.
Nothing == [kind |-> "nothing", value |-> <<>>]
Yield(v) == [kind |-> "yield", value |-> v]
Throw == [kind |-> "throw", value |-> <<>>]

\* Mutant of processLine: the SyntaxError of JSON.parse is not caught.
processLineRethrows(line) ==
    LET trimmedLine == trim(line)
    IN  IF trimmedLine = <<>> \/ trimmedLine = DoneLine THEN Nothing
        ELSE IF startsWith(trimmedLine, DataPrefix)
        THEN LET chunk == JSONparse(Drop(trimmedLine, 6))
             IN  IF chunk.ok THEN Yield(chunk.value) ELSE Throw
        ELSE Nothing

\* Mutant of processLine: the sentinel is yielded as a chunk.
processLineDoneIsEvent(line) ==
    LET trimmedLine == trim(line)
    IN  IF trimmedLine = <<>> THEN Nothing
        ELSE IF startsWith(trimmedLine, DataPrefix)
        THEN LET chunk == JSONparse(Drop(trimmedLine, 6))
             IN  IF chunk.ok THEN Yield(chunk.value)
                 ELSE IF trimmedLine = DoneLine THEN Yield(Drop(trimmedLine, 6))
                 ELSE Nothing
        ELSE Nothing

\* Mutant of processLine: a line that is neither blank nor a `data: ` line
\* is an error of the stream.
processLineRequiresData(line) ==
    LET trimmedLine == trim(line)
    IN  IF trimmedLine = <<>> \/ trimmedLine = DoneLine THEN Nothing
        ELSE IF startsWith(trimmedLine, DataPrefix)
        THEN LET chunk == JSONparse(Drop(trimmedLine, 6))
             IN  IF chunk.ok THEN Yield(chunk.value) ELSE Nothing
        ELSE Throw

\* Mutant of processLine: the space after `data:` is not required.
processLineLooseData(line) ==
    LET trimmedLine == trim(line)
    IN  IF trimmedLine = <<>> \/ trimmedLine = DoneLine THEN Nothing
        ELSE IF startsWith(trimmedLine, DataPrefix)
        THEN LET chunk == JSONparse(Drop(trimmedLine, 6))
             IN  IF chunk.ok THEN Yield(chunk.value) ELSE Nothing
        ELSE IF startsWith(trimmedLine, SubSeq(DataPrefix, 1, 5))
        THEN LET chunk == JSONparse(Drop(trimmedLine, 5))
             IN  IF chunk.ok THEN Yield(chunk.value) ELSE Nothing
        ELSE Nothing

\* Mutant of processLine: the sentinel ends the iteration.
processLineDoneEnds(line) ==
    LET trimmedLine == trim(line)
    IN  IF trimmedLine = <<>> THEN Nothing
        ELSE IF trimmedLine = DoneLine THEN Throw
        ELSE IF startsWith(trimmedLine, DataPrefix)
        THEN LET chunk == JSONparse(Drop(trimmedLine, 6))
             IN  IF chunk.ok THEN Yield(chunk.value) ELSE Nothing
        ELSE Nothing

processLine(line) ==
    LET trimmedLine == trim(line)
    IN  IF trimmedLine = <<>> \/ trimmedLine = DoneLine THEN Nothing
        ELSE IF startsWith(trimmedLine, DataPrefix)
        THEN LET chunk == JSONparse(Drop(trimmedLine, 6))
             IN  IF chunk.ok THEN Yield(chunk.value) ELSE Nothing
        ELSE Nothing

\* The generator runs the for loop over the lines ls that are left: up to the
\* first yield, or to an exception leaving the loop, or through all of them
\* and on to the next reader.read().
\* Mutant of forLines: the lines of a chunk are taken from the last to
\* the first.
RECURSIVE forLinesLastFirst(_)
forLinesLastFirst(ls) ==
    IF ls = <<>> THEN [gen |-> "reading", lines |-> <<>>, events |-> <<>>]
    ELSE LET o == processLine(ls[Len(ls)])
         IN  IF o.kind = "yield"
             THEN [gen |-> "suspended", lines |-> SubSeq(ls, 1, Len(ls) - 1),
                   events |-> <<o.value>>]
             ELSE forLinesLastFirst(SubSeq(ls, 1, Len(ls) - 1))

RECURSIVE forLines(_)
forLines(ls) ==
    IF ls = <<>> THEN [gen |-> "reading", lines |-> <<>>, events |-> <<>>]
    ELSE LET o == processLine(Head(ls))
         IN  CASE o.kind = "yield" ->
                    [gen |-> "suspended", lines |-> Tail(ls), events |-> <<o.value>>]
               [] o.kind = "throw" ->
                    [gen |-> "ended", lines |-> <<>>, events |-> <<>>]
               [] OTHER -> forLines(Tail(ls))

\* `buffer = lines.pop() || ''` and the lines left for the for loop.
\* Mutant of pop: nothing is kept in the buffer between two reads.
popKeepsNothing(ls) == <<>>

\* Mutant of popped: the last piece is read but not removed, so the for
\* loop also runs on the incomplete line that stays in the buffer.
poppedKeepsLast(ls) == ls

pop(ls) == ls[Len(ls)]
popped(ls) == SubSeq(ls, 1, Len(ls) - 1)

\* The bodies: lines of the pool, each ended by "\n", and a tail without one.
ValidLine == DataPrefix \o <<"{", "\"", "a", "\"", ":", "1", "}">>
NumberLine == DataPrefix \o <<"2">>
AccentLine == DataPrefix \o <<"\"", LeadByte, ContinuationByte, "\"", "\r">>
MalformedLine == DataPrefix \o <<"{">>
BlankLine == <<>>
LinePool == {ValidLine, AccentLine, MalformedLine, DoneLine, BlankLine}
TailPool == {<<>>, NumberLine}

RECURSIVE Body(_, _)
Body(ls, tail) ==
    IF ls = <<>> THEN tail ELSE Head(ls) \o <<"\n">> \o Body(Tail(ls), tail)

SeqsUpTo(S, n) == UNION {[1..k -> S] : k \in 0..n}

\* A malformed line between two well-formed ones, and a valid line followed
\* by blank lines and the sentinel.
MalformedBetween == Body(<<ValidLine, MalformedLine, NumberLine>>, <<>>)
BlanksAndDone == Body(<<ValidLine, BlankLine, BlankLine, DoneLine>>, <<>>)

Bodies ==
    {Body(ls, tail) : ls \in SeqsUpTo(LinePool, MaxLines), tail \in TailPool}
    \cup {MalformedBetween, BlanksAndDone}

\* The body `data: {"a":1}\n`, and the body of two lines with different
\* values; for these the place of the chunk boundaries is remembered.
ExampleBody == Body(<<ValidLine>>, <<>>)
TwoLineBody == Body(<<ValidLine, AccentLine>>, <<>>)
TracedBodies == {ExampleBody, TwoLineBody}

\* Lines of a server-sent event stream that carry no `data: ` field: a
\* keep-alive comment, the fields `event` and `id`, and `data:` without the
\* space after the colon.
PingLine == <<":", " ", "p", "i", "n", "g">>
EventLine == <<"e", "v", "e", "n", "t", ":", " ", "x">>
IdLine == <<"i", "d", ":", " ", "1">>
NoSpaceLine == <<"d", "a", "t", "a", ":", "{", "\"", "a", "\"", ":", "1", "}">>
OtherFields == {PingLine, EventLine, IdLine, NoSpaceLine}

\* The bodies that mix every kind of line: valid, malformed, blank, the
\* sentinel, lines without the prefix, and a partial line at the end.
FieldPool == {ValidLine, MalformedLine, DoneLine, BlankLine, PingLine, NoSpaceLine}
FieldsBetween == Body(<<EventLine, ValidLine, IdLine, NumberLine>>, <<>>)
FieldBodies ==
    {Body(ls, tail) : ls \in SeqsUpTo(FieldPool, MaxLines), tail \in TailPool}
    \cup {FieldsBetween}

\* A streaming response has arrived and its generator has been created;
\* nothing of the generator's body has run.
InitStream ==
    /\ wire \in Bodies
    /\ sent = 0
    /\ gen = "created"
    /\ exit = "none"
    /\ buffer = <<>>
    /\ held = <<>>
    /\ lines = <<>>
    /\ yielded = <<>>
    /\ acquired = 0
    /\ released = 0
    /\ seam = "none"
    /\ other = Invocation(<<>>, "unused")
    /\ provider = [r \in Runs |-> "Flux"]
    /\ options = [r \in Runs |-> EmptyOptions]
    /\ endpoint = [r \in Runs |-> Undefined]
    /\ job = [r \in Runs |-> 1]
    /\ script = [j \in Jobs |-> <<>>]
    /\ pc = [r \in Runs |-> "unused"]
    /\ attempt = [r \in Runs |-> 0]
    /\ result = [r \in Runs |-> NoResult]
    /\ checks = [r \in Runs |-> 0]
    /\ sleeps = [r \in Runs |-> 0]
    /\ slept = [r \in Runs |-> 0]
    /\ observed = [r \in Runs |-> <<>>]
    /\ outcome = [r \in Runs |-> Unsettled]
    /\ base = [r \in Runs |-> 0]
    /\ offered = [r \in Runs |-> {}]
    /\ NoSend
    /\ NoClient
    /\ timing = NoTiming

\* The generator moves on as forLines(ls) says; leaving the try block by an
\* exception runs the finally block.
Continue(ls) ==
    LET c == forLines(ls)
    IN  /\ gen' = c.gen
        /\ lines' = c.lines
        /\ yielded' = yielded \o c.events
        /\ exit' = IF c.gen = "ended" THEN "error" ELSE exit
        /\ released' = IF c.gen = "ended" THEN released + 1 ELSE released

\* Mutant of Finally: the lock is released only after the loop was left by
\* its break.
FinallyOnlyAfterBreak(how) ==
    /\ released' = IF how = "completed" THEN released + 1 ELSE released
    /\ gen' = "ended"
    /\ exit' = how
    /\ lines' = <<>>

\* The finally block: reader.releaseLock(), and the generator is finished.
Finally(how) ==
    /\ released' = released + 1
    /\ gen' = "ended"
    /\ exit' = how
    /\ lines' = <<>>

\* The consumer's first next(): the body starts, getReader() locks the
\* stream and the first reader.read() is issued.
FirstNext ==
    /\ gen = "created"
    /\ acquired' = acquired + 1
    /\ gen' = "reading"
    /\ UNCHANGED <<wire, sent, exit, buffer, held, lines, yielded, released, seam>>
    /\ UNCHANGED <<pollVars, sendVars, clientVars, other>>

\* Mutant of NotReadable: the test of the reader stands inside the try
\* block, so the finally block releases a reader that was never acquired.
NotReadableReleases ==
    /\ gen = "created"
    /\ Finally("not-readable")
    /\ UNCHANGED <<wire, sent, buffer, held, yielded, acquired, seam>>
    /\ UNCHANGED <<pollVars, sendVars, clientVars, other>>

\* The consumer's first next() finds no readable body: the generator throws
\* before its try block.
NotReadable ==
    /\ gen = "created"
    /\ gen' = "ended"
    /\ exit' = "not-readable"
    /\ UNCHANGED <<wire, sent, buffer, held, lines, yielded, acquired, released, seam>>
    /\ UNCHANGED <<pollVars, sendVars, clientVars, other>>

\* Where the chunk boundary fell in the line whose start is held in the
\* buffer buf (and in the decoder, h): inside a character, inside the
\* `data: ` prefix, inside the text after the prefix, or elsewhere.
SeamKind(buf, h) ==
    IF h # <<>> THEN "character"
    ELSE IF Len(buf) < Len(DataPrefix) /\ startsWith(DataPrefix, buf) THEN "prefix"
    ELSE IF Len(buf) > Len(DataPrefix) /\ startsWith(buf, DataPrefix) THEN "json"
    ELSE "line"

\* Mutant of ReadChunk: the lines of the chunk are queued and the next
\* read is issued before their chunks are yielded.
ReadChunkReadsAhead ==
    /\ gen = "reading"
    /\ \E n \in 1..(Len(wire) - sent) :
          LET value == SubSeq(wire, sent + 1, sent + n)
              d == decode(held \o value)
              ls == split(buffer \o d.text)
          IN  /\ sent' = sent + n
              /\ held' = d.held
              /\ buffer' = pop(ls)
              /\ IF sent + n < Len(wire)
                 THEN /\ lines' = lines \o popped(ls)
                      /\ UNCHANGED <<gen, yielded, exit, released>>
                 ELSE Continue(lines \o popped(ls))
              /\ seam' = IF /\ wire \in TracedBodies
                            /\ Len(ls) > 1
                            /\ buffer # <<>> \/ held # <<>>
                         THEN SeamKind(buffer, held) ELSE seam
    /\ UNCHANGED <<wire, acquired>>
    /\ UNCHANGED <<pollVars, sendVars, clientVars, other>>

\* reader.read() resolves with the next n bytes: they are decoded and
\* appended to the buffer, the buffer is split, its last piece is kept and
\* the for loop starts on the others.
ReadChunk ==
    /\ gen = "reading"
    /\ \E n \in 1..(Len(wire) - sent) :
          LET value == SubSeq(wire, sent + 1, sent + n)
              d == decode(held \o value)
              ls == split(buffer \o d.text)
          IN  /\ sent' = sent + n
              /\ held' = d.held
              /\ buffer' = pop(ls)
              /\ Continue(popped(ls))
              /\ seam' = IF /\ wire \in TracedBodies
                            /\ Len(ls) > 1
                            /\ buffer # <<>> \/ held # <<>>
                         THEN SeamKind(buffer, held) ELSE seam
    /\ UNCHANGED <<wire, acquired>>
    /\ UNCHANGED <<pollVars, sendVars, clientVars, other>>

\* Mutant of ReadDone: what is left in the buffer is taken as a last line.
ReadDoneFlushes ==
    /\ gen = "reading"
    /\ sent = Len(wire)
    /\ released' = released + 1
    /\ gen' = "ended"
    /\ exit' = "completed"
    /\ lines' = <<>>
    /\ yielded' = IF processLine(buffer).kind = "yield"
                  THEN Append(yielded, processLine(buffer).value) ELSE yielded
    /\ UNCHANGED <<wire, sent, buffer, held, acquired, seam>>
    /\ UNCHANGED <<pollVars, sendVars, clientVars, other>>

\* reader.read() resolves with done: break, then the finally block.
ReadDone ==
    /\ gen = "reading"
    /\ sent = Len(wire)
    /\ Finally("completed")
    /\ UNCHANGED <<wire, sent, buffer, held, yielded, acquired, seam>>
    /\ UNCHANGED <<pollVars, sendVars, clientVars, other>>

\* reader.read() rejects: the exception leaves the generator through the
\* finally block.
ReadFails ==
    /\ gen = "reading"
    /\ Finally("read-error")
    /\ UNCHANGED <<wire, sent, buffer, held, yielded, acquired, seam>>
    /\ UNCHANGED <<pollVars, sendVars, clientVars, other>>

\* The consumer asks for the next chunk: the generator resumes after its
\* yield.
NextChunk ==
    /\ gen = "suspended"
    /\ Continue(lines)
    /\ UNCHANGED <<wire, sent, buffer, held, acquired, seam>>
    /\ UNCHANGED <<pollVars, sendVars, clientVars, other>>

\* The consumer leaves its for await loop by break or return: the loop calls
\* the generator's return(), which resumes it at the yield with a return.
ConsumerBreaks ==
    /\ gen = "suspended"
    /\ Finally("break")
    /\ UNCHANGED <<wire, sent, buffer, held, yielded, acquired, seam>>
    /\ UNCHANGED <<pollVars, sendVars, clientVars, other>>

\* The body of the consumer's for await loop throws: the loop calls the
\* generator's return() and rethrows.
ConsumerRaises ==
    /\ gen = "suspended"
    /\ Finally("raise")
    /\ UNCHANGED <<wire, sent, buffer, held, yielded, acquired, seam>>
    /\ UNCHANGED <<pollVars, sendVars, clientVars, other>>

StreamNext ==
    \/ FirstNext
    \/ NotReadable
    \/ ReadChunk
    \/ ReadDone
    \/ ReadFails
    \/ NextChunk
    \/ ConsumerBreaks
    \/ ConsumerRaises

SpecStream == InitStream /\ [][StreamNext]_vars

\* The decoder on the bodies that mix every kind of line.
InitFields ==
    /\ wire \in FieldBodies
    /\ sent = 0
    /\ gen = "created"
    /\ exit = "none"
    /\ buffer = <<>>
    /\ held = <<>>
    /\ lines = <<>>
    /\ yielded = <<>>
    /\ acquired = 0
    /\ released = 0
    /\ seam = "none"
    /\ other = Invocation(<<>>, "unused")
    /\ provider = [r \in Runs |-> "Flux"]
    /\ options = [r \in Runs |-> EmptyOptions]
    /\ endpoint = [r \in Runs |-> Undefined]
    /\ job = [r \in Runs |-> 1]
    /\ script = [j \in Jobs |-> <<>>]
    /\ pc = [r \in Runs |-> "unused"]
    /\ attempt = [r \in Runs |-> 0]
    /\ result = [r \in Runs |-> NoResult]
    /\ checks = [r \in Runs |-> 0]
    /\ sleeps = [r \in Runs |-> 0]
    /\ slept = [r \in Runs |-> 0]
    /\ observed = [r \in Runs |-> <<>>]
    /\ outcome = [r \in Runs |-> Unsettled]
    /\ base = [r \in Runs |-> 0]
    /\ offered = [r \in Runs |-> {}]
    /\ NoSend
    /\ NoClient
    /\ timing = NoTiming

SpecFields == InitFields /\ [][StreamNext]_vars

\* --------------------------------------------- two invocations side by side
\* The locals and the stream of the first invocation.
firstVars == <<wire, sent, gen, exit, buffer, held, lines, yielded, acquired,
               released, seam>>

\* The second invocation moves on as forLines(ls) says.
OtherContinue(o, ls) ==
    LET c == forLines(ls)
    IN  [o EXCEPT !.gen = c.gen,
                  !.lines = c.lines,
                  !.yielded = @ \o c.events,
                  !.exit = IF c.gen = "ended" THEN "error" ELSE @,
                  !.released = IF c.gen = "ended" THEN @ + 1 ELSE @]

\* The finally block of the second invocation.
OtherFinally(o, how) ==
    [o EXCEPT !.released = @ + 1, !.gen = "ended", !.exit = how, !.lines = <<>>]

\* The first next() on the second iterable: its own getReader().
OtherFirstNext ==
    /\ other.gen = "created"
    /\ other' = [other EXCEPT !.acquired = @ + 1, !.gen = "reading"]
    /\ UNCHANGED <<pollVars, sendVars, clientVars, firstVars>>

\* Mutant of OtherReadChunk: `buffer` is one string shared by the
\* invocations instead of a local of each.
OtherReadChunkSharedBuffer ==
    /\ other.gen = "reading"
    /\ \E n \in 1..(Len(other.wire) - other.sent) :
          LET value == SubSeq(other.wire, other.sent + 1, other.sent + n)
              d == decode(other.held \o value)
              ls == split(buffer \o d.text)
          IN  /\ other' = OtherContinue([other EXCEPT !.sent = @ + n, !.held = d.held],
                                        popped(ls))
              /\ buffer' = pop(ls)
    /\ UNCHANGED <<wire, sent, gen, exit, held, lines, yielded, acquired, released, seam>>
    /\ UNCHANGED <<pollVars, sendVars, clientVars>>

\* reader.read() of the second invocation resolves with the next n bytes of
\* its stream: its decoder, its buffer, its for loop.
OtherReadChunk ==
    /\ other.gen = "reading"
    /\ \E n \in 1..(Len(other.wire) - other.sent) :
          LET value == SubSeq(other.wire, other.sent + 1, other.sent + n)
              d == decode(other.held \o value)
              ls == split(other.buffer \o d.text)
          IN  other' = OtherContinue([other EXCEPT !.sent = @ + n,
                                                   !.held = d.held,
                                                   !.buffer = pop(ls)],
                                     popped(ls))
    /\ UNCHANGED <<pollVars, sendVars, clientVars, firstVars>>

\* reader.read() of the second invocation resolves with done.
OtherReadDone ==
    /\ other.gen = "reading"
    /\ other.sent = Len(other.wire)
    /\ other' = OtherFinally(other, "completed")
    /\ UNCHANGED <<pollVars, sendVars, clientVars, firstVars>>

\* reader.read() of the second invocation rejects.
OtherReadFails ==
    /\ other.gen = "reading"
    /\ other' = OtherFinally(other, "read-error")
    /\ UNCHANGED <<pollVars, sendVars, clientVars, firstVars>>

\* The consumer of the second iterable asks for the next chunk.
OtherNextChunk ==
    /\ other.gen = "suspended"
    /\ other' = OtherContinue(other, other.lines)
    /\ UNCHANGED <<pollVars, sendVars, clientVars, firstVars>>

\* The consumer of the second iterable leaves its loop.
OtherConsumerBreaks ==
    /\ other.gen = "suspended"
    /\ other' = OtherFinally(other, "break")
    /\ UNCHANGED <<pollVars, sendVars, clientVars, firstVars>>

\* Two streaming responses and their generators: the steps of the two
\* consumers interleave in any order.
NumberBody == Body(<<NumberLine>>, <<>>)
PairBodies == {ExampleBody, NumberBody, Body(<<NumberLine>>, NumberLine)}

InitPair ==
    /\ wire \in PairBodies
    /\ other \in {Invocation(w, "created") : w \in PairBodies}
    /\ sent = 0
    /\ gen = "created"
    /\ exit = "none"
    /\ buffer = <<>>
    /\ held = <<>>
    /\ lines = <<>>
    /\ yielded = <<>>
    /\ acquired = 0
    /\ released = 0
    /\ seam = "none"
    /\ provider = [r \in Runs |-> "Flux"]
    /\ options = [r \in Runs |-> EmptyOptions]
    /\ endpoint = [r \in Runs |-> Undefined]
    /\ job = [r \in Runs |-> 1]
    /\ script = [j \in Jobs |-> <<>>]
    /\ pc = [r \in Runs |-> "unused"]
    /\ attempt = [r \in Runs |-> 0]
    /\ result = [r \in Runs |-> NoResult]
    /\ checks = [r \in Runs |-> 0]
    /\ sleeps = [r \in Runs |-> 0]
    /\ slept = [r \in Runs |-> 0]
    /\ observed = [r \in Runs |-> <<>>]
    /\ outcome = [r \in Runs |-> Unsettled]
    /\ base = [r \in Runs |-> 0]
    /\ offered = [r \in Runs |-> {}]
    /\ NoSend
    /\ NoClient
    /\ timing = NoTiming

PairNext ==
    \/ FirstNext
    \/ ReadChunk
    \/ ReadDone
    \/ ReadFails
    \/ NextChunk
    \/ ConsumerBreaks
    \/ OtherFirstNext
    \/ OtherReadChunk
    \/ OtherReadDone
    \/ OtherReadFails
    \/ OtherNextChunk
    \/ OtherConsumerBreaks

\* Two operations of one kind on one service instance running side by side:
\* two pollResult calls, or two iterations of streaming responses.
InitConcurrent == InitLive \/ InitPair

SpecConcurrent == InitConcurrent /\ [][Next \/ PairNext]_vars

\* ------------------------------------------------- the client and chat.send
\* A model name is written as the sequence of its pieces around "/".
\* FLUX_PREFIX, GLM_PREFIX, MISTRAL_PREFIX, NANO_BANANA_PREFIX, TAVILY_PREFIX,
\* UNCENSORED_AI_PREFIX and WAN_PREFIX.
PREFIX ==
    [FLUX |-> <<"flux", "/">>,
     GLM |-> <<"glm", "/">>,
     MISTRAL |-> <<"mistralai", "/">>,
     NANO_BANANA |-> <<"nano-banana", "/">>,
     TAVILY |-> <<"tavily", "/">>,
     UNCENSORED_AI |-> <<"uncensored-ai", "/">>,
     WAN |-> <<"wan", "/">>]

\* The prefixes in the order parseModelName tries them.
PrefixOrder ==
    <<PREFIX.FLUX, PREFIX.GLM, PREFIX.MISTRAL, PREFIX.NANO_BANANA, PREFIX.TAVILY,
      PREFIX.UNCENSORED_AI, PREFIX.WAN>>

\* slice(prefix.length) of a model that starts with the prefix, else the model.
StripPrefix(model, prefix) ==
    IF startsWith(model, prefix) THEN Drop(model, Len(prefix)) ELSE model

\* parseModelName(model): the first prefix the model starts with names the
\* provider, and modelName is what follows it; provider null otherwise.
parseModelName(model) ==
    LET matching == {i \in DOMAIN PrefixOrder : startsWith(model, PrefixOrder[i])}
    IN  IF matching = {} THEN [provider |-> "null", modelName |-> model]
        ELSE LET i == CHOOSE k \in matching : \A j \in matching : k <= j
             IN  [provider |-> PrefixOrder[i][1],
                  modelName |-> Drop(model, Len(PrefixOrder[i]))]

\* The configs a client is constructed with: apiKey absent, empty or not,
\* timeout absent, 0 or not.
ClientTimeout == 5000
ClientConfigs ==
    {[has |-> h, apiKey |-> k, timeout |-> t] :
        h \in SUBSET {"apiKey", "timeout"},
        k \in {"", "test-api-key"},
        t \in {0, ClientTimeout}}

\* `!config.apiKey` and `this.config.timeout` as conditions: an absent
\* property, the empty string and 0 are falsy.
apiKeyGiven(c) == "apiKey" \in c.has /\ c.apiKey # ""
timeoutGiven(c) == "timeout" \in c.has /\ c.timeout # 0

\* The models of the requests: without a prefix, with each of the prefixes,
\* and names that resemble a prefixed one.
Models ==
    {<<"gpt-4o-mini">>,
     <<"openai", "/", "gpt-5.1">>,
     <<"flux", "/", "flux-2-pro">>,
     <<"glm", "/", "glm-4.5">>,
     <<"mistralai", "/", "mistral-small">>,
     <<"nano-banana", "/", "gemini-2.5-flash-image">>,
     <<"tavily", "/", "search">>,
     <<"uncensored-ai", "/", "uncensored-image">>,
     <<"uncensored-ai", "/", "uncensored-video">>,
     <<"wan", "/", "wan2.5-t2v-preview">>,
     <<"Flux", "/", "flux-2-pro">>,
     <<"glm">>,
     <<"wan", "/", "flux", "/", "flux-2-pro">>}

\* The requests: stream absent, false or true.
Requests ==
    {[has |-> {"model"} \cup h, model |-> m, stream |-> b] :
        h \in SUBSET {"stream"}, m \in Models, b \in BOOLEAN}
    \ {r \in [has : SUBSET {"model", "stream"}, model : Models, stream : BOOLEAN] :
          "stream" \notin r.has /\ r.stream}

\* `if (request.stream)`
streams(r) == "stream" \in r.has /\ r.stream

\* What the constructor and send end with.
Constructed == [state |-> "constructed", chat |-> "Chat", error |-> ""]
Thrown(e) == [state |-> "thrown", chat |-> Undefined, error |-> e]
Settled(k, e) == [kind |-> k, error |-> e]

\* Mutant of createAbortSignal: a signal whenever the config has a timeout.
createAbortSignalIfPresent(c) ==
    IF "timeout" \in c.has THEN [armed |-> TRUE, delay |-> c.timeout]
    ELSE [armed |-> FALSE, delay |-> 0]

\* createAbortSignal(): a signal that aborts after config.timeout ms, or
\* undefined.
createAbortSignal(c) ==
    IF timeoutGiven(c) THEN [armed |-> TRUE, delay |-> c.timeout]
    ELSE [armed |-> FALSE, delay |-> 0]

\* How an awaited fetch, response.text() or response.json() can reject: the
\* network fails, or the signal of the request aborts it.
RejectionCauses(signal) == {"network"} \cup (IF signal.armed THEN {"abort"} ELSE {})

\* A backend call: the service, its method, and the model or endpoint the
\* call is made for.
Call(b, method, m) == [backend |-> b, method |-> method, model |-> m]

InitClient ==
    /\ clientConfig \in ClientConfigs
    /\ client = [state |-> "none", chat |-> Undefined, error |-> ""]
    /\ request \in Requests
    /\ clientPc = "new"
    /\ calls = <<>>
    /\ signals = <<>>
    /\ response = [received |-> FALSE, ok |-> FALSE, body |-> FALSE]
    /\ settled = Settled("pending", "")
    /\ provider = [r \in Runs |-> "Flux"]
    /\ options = [r \in Runs |-> EmptyOptions]
    /\ endpoint = [r \in Runs |-> Undefined]
    /\ job = [r \in Runs |-> 1]
    /\ script = [j \in Jobs |-> <<>>]
    /\ pc = [r \in Runs |-> "unused"]
    /\ attempt = [r \in Runs |-> 0]
    /\ result = [r \in Runs |-> NoResult]
    /\ checks = [r \in Runs |-> 0]
    /\ sleeps = [r \in Runs |-> 0]
    /\ slept = [r \in Runs |-> 0]
    /\ observed = [r \in Runs |-> <<>>]
    /\ outcome = [r \in Runs |-> Unsettled]
    /\ base = [r \in Runs |-> 0]
    /\ offered = [r \in Runs |-> {}]
    /\ NoSend
    /\ NoStream
    /\ timing = NoTiming

\* Mutant of EternalAI: only an absent apiKey is refused.
EternalAIAcceptsEmptyKey ==
    /\ clientPc = "new"
    /\ IF "apiKey" \notin clientConfig.has
       THEN /\ client' = Thrown("API key is required")
            /\ clientPc' = "done"
       ELSE /\ client' = Constructed
            /\ clientPc' = "ready"
    /\ UNCHANGED <<clientConfig, request, calls, signals, response, settled>>
    /\ UNCHANGED <<pollVars, sendVars, streamVars>>

\* new EternalAI(config)
EternalAI ==
    /\ clientPc = "new"
    /\ IF ~ apiKeyGiven(clientConfig)
       THEN /\ client' = Thrown("API key is required")
            /\ clientPc' = "done"
       ELSE /\ client' = Constructed
            /\ clientPc' = "ready"
    /\ UNCHANGED <<clientConfig, request, calls, signals, response, settled>>
    /\ UNCHANGED <<pollVars, sendVars, streamVars>>

\* client.chat.send(request) up to its first await, or to its return.
chatSend ==
    /\ clientPc = "ready"
    /\ LET p == parseModelName(request.model)
           signal == createAbortSignal(clientConfig)
       IN  CASE p.provider = "flux" ->
                  /\ calls' = Append(calls, Call("flux", "generate",
                                                 StripPrefix(request.model, PREFIX.FLUX)))
                  /\ signals' = Append(signals, signal)
                  /\ clientPc' = "generate"
                  /\ UNCHANGED settled
             [] p.provider \in {"glm", "mistralai", "nano-banana"} /\ streams(request) ->
                  /\ calls' = Append(calls, Call(p.provider, "streamContent", p.modelName))
                  /\ settled' = Settled("iterable", "")
                  /\ clientPc' = "done"
                  /\ UNCHANGED signals
             [] p.provider \in {"glm", "mistralai", "nano-banana"} /\ ~ streams(request) ->
                  /\ calls' = Append(calls, Call(p.provider, "generateContent", p.modelName))
                  /\ signals' = Append(signals, signal)
                  /\ clientPc' = "provider"
                  /\ UNCHANGED settled
             [] p.provider = "tavily" ->
                  /\ calls' = Append(calls, Call("tavily", "search", p.modelName))
                  /\ signals' = Append(signals, signal)
                  /\ clientPc' = "provider"
                  /\ UNCHANGED settled
             [] p.provider = "uncensored-ai" ->
                  /\ calls' = Append(calls, Call("uncensored-ai", "generate",
                                                 <<DefaultEndpoint("UncensoredAI")>>))
                  /\ signals' = Append(signals, signal)
                  /\ clientPc' = "generate"
                  /\ UNCHANGED settled
             [] p.provider = "wan" ->
                  /\ calls' = Append(calls, Call("wan", "generate",
                                                 StripPrefix(request.model, PREFIX.WAN)))
                  /\ signals' = Append(signals, signal)
                  /\ clientPc' = "generate"
                  /\ UNCHANGED settled
             [] p.provider = "null" ->
                  /\ calls' = Append(calls, Call("chat/completions", "fetch", request.model))
                  /\ signals' = Append(signals, signal)
                  /\ clientPc' = "fetch"
                  /\ UNCHANGED settled
    /\ UNCHANGED <<clientConfig, client, request, response>>
    /\ UNCHANGED <<pollVars, sendVars, streamVars>>

\* generate of a polling service returns its task: send calls pollResult
\* (for uncensored-ai with the endpoint named by the model), whose first
\* status check is a fetch.
generateReturns ==
    /\ clientPc = "generate"
    /\ LET p == parseModelName(request.model)
       IN  calls' = Append(calls, Call(p.provider, "pollResult", p.modelName))
    /\ signals' = Append(signals, createAbortSignal(clientConfig))
    /\ clientPc' = "provider"
    /\ UNCHANGED <<clientConfig, client, request, response, settled>>
    /\ UNCHANGED <<pollVars, sendVars, streamVars>>

\* The call of the provider resolves: send returns a ChatCompletionResponse.
providerResolves ==
    /\ clientPc = "provider"
    /\ settled' = Settled("response", "")
    /\ clientPc' = "done"
    /\ UNCHANGED <<clientConfig, client, request, calls, signals, response>>
    /\ UNCHANGED <<pollVars, sendVars, streamVars>>

\* The call of the provider rejects: so does send.
providerRejects ==
    /\ clientPc \in {"generate", "provider"}
    /\ \E c \in RejectionCauses(signals[Len(signals)]) \cup {"provider"} :
          settled' = Settled("rejected", c)
    /\ clientPc' = "done"
    /\ UNCHANGED <<clientConfig, client, request, calls, signals, response>>
    /\ UNCHANGED <<pollVars, sendVars, streamVars>>

\* Mutant of fetchResolves: a streaming response is handed to the
\* generator without a look at its body.
fetchResolvesUnchecked(ok, body) ==
    /\ clientPc = "fetch"
    /\ response' = [received |-> TRUE, ok |-> ok, body |-> body]
    /\ IF ~ ok
       THEN /\ clientPc' = "text"
            /\ UNCHANGED <<settled, gen>>
       ELSE IF streams(request)
       THEN /\ settled' = Settled("iterable", "")
            /\ gen' = "created"
            /\ clientPc' = "done"
       ELSE /\ clientPc' = "json"
            /\ UNCHANGED <<settled, gen>>
    /\ UNCHANGED <<clientConfig, client, request, calls, signals>>
    /\ UNCHANGED <<wire, sent, exit, buffer, held, lines, yielded, acquired, released, seam,
                   other>>
    /\ UNCHANGED <<pollVars, sendVars>>

\* The fetch of the standard route resolves with a response: status OK or
\* not, with a body or without.
fetchResolves(ok, body) ==
    /\ clientPc = "fetch"
    /\ response' = [received |-> TRUE, ok |-> ok, body |-> body]
    /\ IF ~ ok
       THEN /\ clientPc' = "text"
            /\ UNCHANGED <<settled, gen>>
       ELSE IF streams(request)
       THEN IF ~ body
            THEN /\ settled' = Settled("rejected", "Response body is not readable")
                 /\ clientPc' = "done"
                 /\ UNCHANGED gen
            ELSE /\ settled' = Settled("iterable", "")
                 /\ gen' = "created"
                 /\ clientPc' = "done"
       ELSE /\ clientPc' = "json"
            /\ UNCHANGED <<settled, gen>>
    /\ UNCHANGED <<clientConfig, client, request, calls, signals>>
    /\ UNCHANGED <<wire, sent, exit, buffer, held, lines, yielded, acquired, released, seam,
                   other>>
    /\ UNCHANGED <<pollVars, sendVars>>

\* The fetch of the standard route rejects: send rejects with that error.
fetchRejects ==
    /\ clientPc = "fetch"
    /\ \E c \in RejectionCauses(signals[Len(signals)]) : settled' = Settled("rejected", c)
    /\ clientPc' = "done"
    /\ UNCHANGED <<clientConfig, client, request, calls, signals, response>>
    /\ UNCHANGED <<pollVars, sendVars, streamVars>>

\* Mutant of textResolves: the response that is not OK is returned.
textResolvesReturns ==
    /\ clientPc = "text"
    /\ settled' = Settled("response", "")
    /\ clientPc' = "done"
    /\ UNCHANGED <<clientConfig, client, request, calls, signals, response>>
    /\ UNCHANGED <<pollVars, sendVars, streamVars>>

\* response.text() of a response that is not OK resolves: send throws the
\* error that carries the status and the text.
textResolves ==
    /\ clientPc = "text"
    /\ settled' = Settled("rejected", "EternalAI request failed with status <status>: <text>")
    /\ clientPc' = "done"
    /\ UNCHANGED <<clientConfig, client, request, calls, signals, response>>
    /\ UNCHANGED <<pollVars, sendVars, streamVars>>

\* response.text() or response.json() rejects: send rejects with that error.
bodyRejects ==
    /\ clientPc \in {"text", "json"}
    /\ \E c \in RejectionCauses(signals[Len(signals)]) : settled' = Settled("rejected", c)
    /\ clientPc' = "done"
    /\ UNCHANGED <<clientConfig, client, request, calls, signals, response>>
    /\ UNCHANGED <<pollVars, sendVars, streamVars>>

\* response.json() resolves: send returns the ChatCompletionResponse.
jsonResolves ==
    /\ clientPc = "json"
    /\ settled' = Settled("response", "")
    /\ clientPc' = "done"
    /\ UNCHANGED <<clientConfig, client, request, calls, signals, response>>
    /\ UNCHANGED <<pollVars, sendVars, streamVars>>

\* The routes whose streaming result is a generator of the provider's
\* service: nothing of its body runs before the consumer's first next().
GeneratorRoutes == {"glm", "mistralai", "nano-banana"}
OnGeneratorRoute ==
    parseModelName(request.model).provider \in GeneratorRoutes /\ streams(request)

\* The consumer's first next() on the iterable of streamContent: the body
\* starts and runs to its `await fetch(...)`.
streamContentFirstNext ==
    /\ OnGeneratorRoute
    /\ settled.kind = "iterable"
    /\ gen = "unused"
    /\ gen' = "fetch"
    /\ calls' = Append(calls, Call(parseModelName(request.model).provider, "fetch",
                                   parseModelName(request.model).modelName))
    /\ signals' = Append(signals, createAbortSignal(clientConfig))
    /\ UNCHANGED <<clientConfig, client, request, clientPc, response, settled>>
    /\ UNCHANGED <<wire, sent, exit, buffer, held, lines, yielded, acquired, released, seam,
                   other>>
    /\ UNCHANGED <<pollVars, sendVars>>

\* Mutant of streamContentFetchResolves: what is wrong with the response is
\* reported by the promise of send.
streamContentFetchResolvesAtSend(ok, body) ==
    /\ gen = "fetch"
    /\ response' = [received |-> TRUE, ok |-> ok, body |-> body]
    /\ IF ok /\ body
       THEN /\ acquired' = acquired + 1
            /\ gen' = "reading"
            /\ UNCHANGED <<exit, settled>>
       ELSE /\ gen' = "ended"
            /\ settled' = Settled("rejected", "Response body is not readable")
            /\ UNCHANGED <<exit, acquired>>
    /\ UNCHANGED <<clientConfig, client, request, clientPc, calls, signals>>
    /\ UNCHANGED <<wire, sent, buffer, held, lines, yielded, released, seam, other>>
    /\ UNCHANGED <<pollVars, sendVars>>

\* The fetch of streamContent resolves with a response: not OK, the body
\* goes on to response.text(); OK without a body, it throws; OK with a
\* body, it takes the reader and issues the first read.
streamContentFetchResolves(ok, body) ==
    /\ gen = "fetch"
    /\ response' = [received |-> TRUE, ok |-> ok, body |-> body]
    /\ IF ~ ok
       THEN /\ gen' = "text"
            /\ UNCHANGED <<exit, acquired>>
       ELSE IF ~ body
       THEN /\ gen' = "ended"
            /\ exit' = "not-readable"
            /\ UNCHANGED acquired
       ELSE /\ acquired' = acquired + 1
            /\ gen' = "reading"
            /\ UNCHANGED exit
    /\ UNCHANGED <<clientConfig, client, request, clientPc, calls, signals, settled>>
    /\ UNCHANGED <<wire, sent, buffer, held, lines, yielded, released, seam, other>>
    /\ UNCHANGED <<pollVars, sendVars>>

\* The fetch of streamContent rejects: the first next() rejects with that
\* error.
streamContentFetchRejects ==
    /\ gen = "fetch"
    /\ gen' = "ended"
    /\ exit' \in RejectionCauses(signals[Len(signals)])
    /\ UNCHANGED <<clientVars, wire, sent, buffer, held, lines, yielded, acquired, released,
                   seam, other>>
    /\ UNCHANGED <<pollVars, sendVars>>

\* response.text() of a response that is not OK resolves: the first next()
\* rejects with the error that carries the status and the text.
streamContentTextResolves ==
    /\ gen = "text"
    /\ gen' = "ended"
    /\ exit' = "http-error"
    /\ UNCHANGED <<clientVars, wire, sent, buffer, held, lines, yielded, acquired, released,
                   seam, other>>
    /\ UNCHANGED <<pollVars, sendVars>>

\* response.text() rejects: the first next() rejects with that error.
streamContentTextRejects ==
    /\ gen = "text"
    /\ gen' = "ended"
    /\ exit' \in RejectionCauses(signals[Len(signals)])
    /\ UNCHANGED <<clientVars, wire, sent, buffer, held, lines, yielded, acquired, released,
                   seam, other>>
    /\ UNCHANGED <<pollVars, sendVars>>

\* FirstNext: the consumer's first next() on the iterable that the standard
\* route returned starts the generator, which takes the reader of the body.
\* streamContent*: the consumer's first next() on the iterable of a
\* generator route, which issues the request.
ClientNext ==
    \/ EternalAI
    \/ chatSend
    \/ generateReturns
    \/ providerResolves
    \/ providerRejects
    \/ \E ok \in BOOLEAN, body \in BOOLEAN : fetchResolves(ok, body)
    \/ fetchRejects
    \/ textResolves
    \/ bodyRejects
    \/ jsonResolves
    \/ FirstNext
    \/ streamContentFirstNext
    \/ \E ok \in BOOLEAN, body \in BOOLEAN : streamContentFetchResolves(ok, body)
    \/ streamContentFetchRejects
    \/ streamContentTextResolves
    \/ streamContentTextRejects

SpecClient == InitClient /\ [][ClientNext]_vars

\* ------------------------------------------- requests under config.timeout
\* Time is counted in ms.  It passes while a request is awaited, while the
\* consumer holds a chunk, and during a sleep; the steps of the code take
\* none.
TickMs == 2500
MaxClock == 10000

\* createAbortSignal() at the time t.now: a fresh controller whose timer is
\* set to fire config.timeout ms from now; nothing when it returns undefined.
ArmedAt(t) ==
    [t EXCEPT !.timers = Append(@, [at |-> t.now, signal |-> createAbortSignal(clientConfig)])]

\* The timer armed for the k-th request has fired: nothing clears a timer.
Fired(k) ==
    /\ k \in 1..Len(timing.timers)
    /\ timing.timers[k].signal.armed
    /\ timing.now >= timing.timers[k].at + timing.timers[k].signal.delay

\* Time passes while a status check or a read is awaited or a chunk is held
\* by the consumer.
Tick ==
    /\ pc[1] = "getResult" \/ gen \in {"reading", "suspended"}
    /\ timing.now + TickMs <= MaxClock
    /\ timing' = [timing EXCEPT !.now = @ + TickMs]
    /\ UNCHANGED <<provider, options, job, script, pc, attempt, result, checks, sleeps,
                   slept, observed, outcome, endpoint, base, offered>>
    /\ UNCHANGED others

\* pollResult is called: the first getResult arms its timer and fetches.
timedPollResult(r) ==
    /\ pc[r] = "idle"
    /\ LoopHead(r, 1)
    /\ timing' = IF LoopContinues(1, Max(r)) THEN ArmedAt(timing) ELSE timing
    /\ UNCHANGED <<provider, options, job, endpoint, base, offered>>
    /\ UNCHANGED <<others, script, result, sleeps, slept, observed>>

\* Mutant of timedSleepElapses: the checks of a run share the signal of the
\* first, so its timer bounds the whole run.
timedSleepElapsesOneSignal(r) ==
    /\ pc[r] = "sleep"
    /\ LoopHead(r, attempt[r] + 1)
    /\ timing' = [timing EXCEPT !.now = @ + Interval(r)]
    /\ UNCHANGED <<provider, options, job, endpoint, base, offered>>
    /\ UNCHANGED <<others, script, result, sleeps, slept, observed>>

\* The timer of sleep fires after `interval` ms; the next getResult, if
\* there is one, arms a timer of its own.
timedSleepElapses(r) ==
    /\ pc[r] = "sleep"
    /\ LoopHead(r, attempt[r] + 1)
    /\ timing' = LET later == [timing EXCEPT !.now = @ + Interval(r)]
                 IN  IF LoopContinues(attempt[r] + 1, Max(r)) THEN ArmedAt(later)
                     ELSE later
    /\ UNCHANGED <<provider, options, job, endpoint, base, offered>>
    /\ UNCHANGED <<others, script, result, sleeps, slept, observed>>

\* The signal of the status check in flight aborts its fetch: getResult
\* rejects and the await in pollResult rethrows.
abortsCheck(r) ==
    /\ pc[r] = "getResult"
    /\ Fired(Len(timing.timers))
    /\ outcome' = [outcome EXCEPT ![r] = TransportError("abort")]
    /\ pc' = [pc EXCEPT ![r] = "done"]
    /\ UNCHANGED <<config, others, script, attempt, result, checks, sleeps, slept, observed>>

\* The signal of the streaming request aborts it while a read is pending:
\* reader.read() rejects and the exception leaves through the finally block.
abortsRead ==
    /\ gen = "reading"
    /\ Fired(1)
    /\ Finally("abort")
    /\ UNCHANGED <<wire, sent, buffer, held, yielded, acquired, seam>>
    /\ UNCHANGED <<pollVars, sendVars, clientVars, other>>

\* The configs of a constructed client.
TimedConfigs == {c \in ClientConfigs : apiKeyGiven(c) /\ c.apiKey = "test-api-key"}

\* A pollResult call about to be made with the default interval and
\* maxAttempts = MaxAttemptsBound; the provider's requests fail only by
\* the abort of their signal.
InitTimedPoll ==
    /\ clientConfig \in TimedConfigs
    /\ client = Constructed
    /\ request = [has |-> {}, model |-> <<>>, stream |-> FALSE]
    /\ clientPc = "unused"
    /\ calls = <<>>
    /\ signals = <<>>
    /\ response = [received |-> FALSE, ok |-> FALSE, body |-> FALSE]
    /\ settled = Settled("pending", "")
    /\ \E p \in Providers : provider = [r \in Runs |-> p]
    /\ options = [r \in Runs |->
                     [has |-> {"maxAttempts"}, interval |-> CustomInterval,
                      maxAttempts |-> MaxAttemptsBound]]
    /\ job = [r \in Runs |-> 1]
    /\ script = [j \in Jobs |-> <<>>]
    /\ pc = [r \in Runs |-> IF r = 1 THEN "idle" ELSE "unused"]
    /\ attempt = [r \in Runs |-> 0]
    /\ result = [r \in Runs |-> NoResult]
    /\ checks = [r \in Runs |-> 0]
    /\ sleeps = [r \in Runs |-> 0]
    /\ slept = [r \in Runs |-> 0]
    /\ observed = [r \in Runs |-> <<>>]
    /\ outcome = [r \in Runs |-> Unsettled]
    /\ endpoint = [r \in Runs |-> DefaultEndpoint(provider[r])]
    /\ base = [r \in Runs |-> 0]
    /\ offered = [r \in Runs |-> {a \in SteadyAnswers(provider[r]) : a.ok}]
    /\ NoSend
    /\ NoStream
    /\ timing = NoTiming

\* chat.send has returned the iterable of the standard route: the request
\* was issued at time 0 with the signal of the config, the response is OK
\* and has a body, and nothing of the generator has run.
InitTimedStream ==
    /\ clientConfig \in TimedConfigs
    /\ client = Constructed
    /\ request = [has |-> {"model", "stream"}, model |-> <<"gpt-4o-mini">>, stream |-> TRUE]
    /\ clientPc = "done"
    /\ calls = <<Call("chat/completions", "fetch", request.model)>>
    /\ signals = <<createAbortSignal(clientConfig)>>
    /\ response = [received |-> TRUE, ok |-> TRUE, body |-> TRUE]
    /\ settled = Settled("iterable", "")
    /\ timing = ArmedAt(NoTiming)
    /\ wire \in {TwoLineBody, Body(<<ValidLine, NumberLine>>, <<>>)}
    /\ sent = 0
    /\ gen = "created"
    /\ exit = "none"
    /\ buffer = <<>>
    /\ held = <<>>
    /\ lines = <<>>
    /\ yielded = <<>>
    /\ acquired = 0
    /\ released = 0
    /\ seam = "none"
    /\ other = Invocation(<<>>, "unused")
    /\ provider = [r \in Runs |-> "Flux"]
    /\ options = [r \in Runs |-> EmptyOptions]
    /\ endpoint = [r \in Runs |-> Undefined]
    /\ job = [r \in Runs |-> 1]
    /\ script = [j \in Jobs |-> <<>>]
    /\ pc = [r \in Runs |-> "unused"]
    /\ attempt = [r \in Runs |-> 0]
    /\ result = [r \in Runs |-> NoResult]
    /\ checks = [r \in Runs |-> 0]
    /\ sleeps = [r \in Runs |-> 0]
    /\ slept = [r \in Runs |-> 0]
    /\ observed = [r \in Runs |-> <<>>]
    /\ outcome = [r \in Runs |-> Unsettled]
    /\ base = [r \in Runs |-> 0]
    /\ offered = [r \in Runs |-> {}]
    /\ NoSend

InitTimeout == InitTimedPoll \/ InitTimedStream

TimeoutNext ==
    \/ Tick
    \/ timedPollResult(1)
    \/ getResultResolves(1)
    \/ NoObserver(1)
    \/ ReturnResult(1)
    \/ ThrowFailed(1)
    \/ StartSleep(1)
    \/ SkipSleep(1)
    \/ timedSleepElapses(1)
    \/ abortsCheck(1)
    \/ FirstNext
    \/ ReadChunk
    \/ ReadDone
    \/ NextChunk
    \/ ConsumerBreaks
    \/ abortsRead

SpecTimeout == InitTimeout /\ [][TimeoutNext]_vars

\* ------------------------------------------------------- terms of the claims
Done(r) == pc[r] = "done"

\* The answers the provider has given to the status checks of call r.
AnswersOf(r) == SubSeq(script[job[r]], base[r] + 1, Len(script[job[r]]))

\* The status check of attempt k of call r has been answered to the call.
Delivered(r, k) == k >= 1 /\ (k < checks[r] \/ (k = checks[r] /\ pc[r] # "getResult"))

\* The statuses the response types declare as waiting or running.
WaitingStatuses(p) ==
    CASE p = "Flux" -> {"Pending", "Running"}
      [] p = "Wan" -> {"PENDING", "RUNNING"}
      [] p = "UncensoredAI" -> {"pending", "processing"}

\* The statuses of a provider's vocabulary that report a failed job.
FailedStatuses(p) == StatusVocabulary(p) \cap FailureStatuses

\* The last status check of call r returned a response (result[r] is it).
LastCheckReturned(r) == checks[r] >= 1 /\ result[r].n = checks[r]

\* ------------------------------------------------------------------- C1
\* C1: if the status check of attempt k < maxAttempts returns the provider's
\* success status, the call makes exactly k status checks, starts no sleep
\* after the k-th check and returns the result object of the k-th check.
C1_ShortCircuitOnSuccess ==
    \A r \in Runs :
        (/\ LastCheckReturned(r)
         /\ checks[r] < Max(r)
         /\ result[r].status = SuccessLiteral(provider[r]))
        => /\ sleeps[r] = checks[r] - 1
           /\ pc[r] # "sleep"
           /\ (Done(r) => outcome[r] = Returned(result[r]))

\* ------------------------------------------------------------------- C2
\* C2: if the status check of attempt k returns the provider's failed status,
\* polling stops at exactly k checks, with no sleep after the k-th, and the
\* call rejects with a generation-failed error.
C2_FailFastOnFailure ==
    \A r \in Runs :
        (/\ LastCheckReturned(r)
         /\ result[r].status = FailureLiteral(provider[r]))
        => /\ sleeps[r] = checks[r] - 1
           /\ pc[r] # "sleep"
           /\ (Done(r) => outcome[r].kind = "generation-failed")

\* ------------------------------------------------------------------- C3
\* Every status check call r has made returned a waiting or running status.
AllChecksWaiting(r) ==
    /\ Len(AnswersOf(r)) >= checks[r]
    /\ \A i \in 1..checks[r] :
          /\ AnswersOf(r)[i].ok
          /\ AnswersOf(r)[i].status \in WaitingStatuses(provider[r])

\* C3: if every status check returns a non-terminal status, pollResult with
\* maxAttempts = N >= 1 makes exactly N status checks and then rejects with
\* the timed-out error carrying N.
C3_TimeoutExactness ==
    \A r \in Runs :
        (Done(r) /\ Max(r) >= 1 /\ AllChecksWaiting(r))
        => /\ checks[r] = Max(r)
           /\ outcome[r] = TimedOut(Max(r))

\* C1, C2 and C3 hold of every call whose observer does not throw: the only
\* runs that break them end with the observer's exception.
ShortCircuitUnlessObserverThrows ==
    \A r \in Runs :
        outcome[r].kind # "callback-error"
        => /\ (LastCheckReturned(r)
               /\ result[r].status \in {SuccessLiteral(provider[r]), FailureLiteral(provider[r])}
               => /\ sleeps[r] = checks[r] - 1
                  /\ pc[r] # "sleep"
                  /\ (Done(r) => outcome[r].kind =
                         IF result[r].status = SuccessLiteral(provider[r])
                         THEN "returned" ELSE "generation-failed"))
           /\ (Done(r) /\ Max(r) >= 1 /\ AllChecksWaiting(r)
               => checks[r] = Max(r) /\ outcome[r] = TimedOut(Max(r)))

\* ------------------------------------------------------------------- C4
\* The sleeps of call r stand between its checks: one fewer than the checks
\* made, or as many while the call sleeps toward the next check; each is of
\* `interval` ms; a timed-out call has slept (maxAttempts - 1) * interval.
SleepsBetweenChecks(r) ==
    /\ sleeps[r] = IF pc[r] = "sleep" THEN checks[r] ELSE checks[r] - 1
    /\ slept[r] = sleeps[r] * Interval(r)
    /\ (Done(r) => sleeps[r] = checks[r] - 1)
    /\ (outcome[r].kind = "timed-out" => slept[r] = (Max(r) - 1) * Interval(r))

\* C4 as stated: in every run of pollResult the sleeps are strictly between
\* consecutive status checks, k - 1 of them at termination after k checks.
C4_SleepBetweenChecksEveryRun ==
    \A r \in Runs : pc[r] # "idle" => SleepsBetweenChecks(r)

\* C4 amended: in every run of pollResult that makes at least one status
\* check (maxAttempts >= 1) the sleeps are strictly between consecutive
\* status checks: k - 1 sleeps of `interval` ms at termination after k
\* checks, (N - 1) * interval in a timed-out run, none after the final
\* attempt; a run that makes no status check never sleeps.
C4_SleepBetweenChecks ==
    \A r \in Runs :
        /\ checks[r] >= 1 => SleepsBetweenChecks(r)
        /\ checks[r] = 0 => sleeps[r] = 0 /\ slept[r] = 0

C4_Witness ==
    \E r \in Runs :
        /\ outcome[r].kind = "timed-out"
        /\ checks[r] >= 3
        /\ sleeps[r] = checks[r] - 1
        /\ slept[r] = 2 * DefaultInterval(provider[r])

\* ------------------------------------------------------------------- C5
\* C5 as stated: a run with an observer that performs k status checks has
\* invoked the observer exactly k times, with attempts 1..k in order and the
\* raw status string of the i-th check as the i-th first argument.
C5_ObserverOncePerCheck ==
    \A r \in Runs :
        (Done(r) /\ onStatusUpdate(options[r]))
        => /\ Len(observed[r]) = checks[r]
           /\ \A i \in 1..Len(observed[r]) :
                 observed[r][i] = <<AnswersOf(r)[i].status, i>>

\* The status checks of call r that returned a response and whose observer
\* call has been made.
Reported(r) == IF pc[r] = "notify" THEN result[r].n - 1 ELSE result[r].n

\* C5 amended: a run with an observer whose first k status checks returned a
\* response has invoked the observer exactly k times (a check that itself
\* fails invokes none), with attempts 1..k in order, the i-th first argument
\* being the raw status string of the i-th response, except that Wan passes
\* 'UNKNOWN' for a response whose task_status is absent or empty.
C5_ObserverFidelity ==
    \A r \in Runs :
        onStatusUpdate(options[r])
        => /\ Len(observed[r]) = Reported(r)
           /\ (Done(r) /\ outcome[r].kind # "transport-error"
                 => Len(observed[r]) = checks[r])
           /\ (outcome[r].kind = "transport-error"
                 => Len(observed[r]) = checks[r] - 1)
           /\ \A i \in 1..Len(observed[r]) :
                 /\ AnswersOf(r)[i].ok
                 /\ observed[r][i][2] = i
                 /\ observed[r][i][1] =
                       IF provider[r] = "Wan" /\ AnswersOf(r)[i].status \in {Undefined, ""}
                       THEN "UNKNOWN"
                       ELSE AnswersOf(r)[i].status

C5_Witness ==
    \E r \in Runs :
        /\ Done(r)
        /\ provider[r] = "Wan"
        /\ Len(observed[r]) = 3
        /\ observed[r][1] = <<"UNKNOWN", 1>>
        /\ observed[r][2] = <<"RUNNING", 2>>
        /\ observed[r][3] = <<"SUCCEEDED", 3>>

\* ------------------------------------------------------------------- C6
\* C6: on every attempt, the first and the terminal one included, the
\* observer is invoked after the attempt's status check has returned and
\* before the decision on the status takes effect: whenever the call is
\* deciding, sleeping, or has returned or thrown on a status, the observer
\* has been called for that attempt with that attempt's status, and it is
\* never called for an attempt whose check has not returned.
C6_ObserveBeforeDecide ==
    \A r \in Runs :
        onStatusUpdate(options[r])
        => /\ Len(observed[r]) <= result[r].n
           /\ ( (\/ pc[r] \in {"decide", "sleep"}
                 \/ outcome[r].kind \in {"returned", "generation-failed"})
                => /\ Len(observed[r]) = attempt[r]
                   /\ attempt[r] = result[r].n
                   /\ observed[r][attempt[r]] =
                         <<ObservedStatus(provider[r], result[r]), attempt[r]>> )
           /\ (outcome[r].kind = "timed-out"
               => Len(observed[r]) = (IF Max(r) >= 1 THEN Max(r) ELSE 0))

C6_Witness ==
    \E r \in Runs :
        /\ onStatusUpdate(options[r])
        /\ outcome[r].kind = "generation-failed"
        /\ attempt[r] = 1
        /\ Len(observed[r]) = 1

\* ------------------------------------------------------------------- C7
\* C7: the observer is purely observational: two calls with the same
\* provider, interval and maxAttempts that receive the same status-check
\* results make the same status checks and sleeps and end with the same
\* outcome, whether the observer is absent, present, or present and raising.
C7_ObserverIsObservational ==
    (Done(1) /\ Done(2))
    => /\ checks[1] = checks[2]
       /\ sleeps[1] = sleeps[2]
       /\ slept[1] = slept[2]
       /\ outcome[1] = outcome[2]

\* ------------------------------------------------------------------- C8
\* C8: every failure status of a provider's vocabulary ('error' of
\* UncensoredAI included) is terminal: on the attempt whose check returns it
\* the call starts no sleep, and a call not ended by its observer settles
\* with the generation-failed error on that attempt.
C8_FailureStatusesAreTerminal ==
    \A r \in Runs :
        (/\ LastCheckReturned(r)
         /\ result[r].status \in FailedStatuses(provider[r]))
        => /\ pc[r] # "sleep"
           /\ (Done(r) /\ outcome[r].kind # "callback-error"
                 => outcome[r].kind = "generation-failed")

\* ------------------------------------------------------------------- C9
\* C9: when polling ends because the provider reported a failed job that
\* carries an error detail, the error raised carries that detail, for every
\* provider.
C9_FailureCarriesDetail ==
    \A r \in Runs :
        (outcome[r].kind = "generation-failed" /\ result[r].detail # Undefined)
        => outcome[r].detail = result[r].detail

JobClass(r) ==
    IF provider[r] = "Wan" \/ (provider[r] = "UncensoredAI" /\ endpoint[r] = "uncensored-video")
    THEN "video" ELSE "image"

\* The defaults the options table of pollResult documents for each class.
DocumentedInterval(c) == IF c = "video" THEN 5000 ELSE 3000
DocumentedMaxAttempts(c) == IF c = "video" THEN 120 ELSE 60

UsesDefaults(r) ==
    /\ pc[r] \notin {"unused", "idle"}
    /\ "interval" \notin options[r].has
    /\ "maxAttempts" \notin options[r].has

\* C13: a pollResult call that supplies neither interval nor maxAttempts
\* sleeps the documented interval of its job's class between checks (3000 ms
\* image, 5000 ms video) and gives up after the documented number of checks
\* of that class (60 image, 120 video), so that a job that never finishes is
\* checked exactly that many times.
C13_DefaultsFollowJobClass ==
    \A r \in Runs :
        UsesDefaults(r) =>
            /\ slept[r] = sleeps[r] * DocumentedInterval(JobClass(r))
            /\ checks[r] <= DocumentedMaxAttempts(JobClass(r))
            /\ outcome[r].kind = "timed-out" =>
                   /\ checks[r] = DocumentedMaxAttempts(JobClass(r))
                   /\ outcome[r].attempts = DocumentedMaxAttempts(JobClass(r))

\* The same for the calls whose defaults do not depend on an endpoint
\* argument (Flux, Wan, and UncensoredAI on 'uncensored-image').
C13_DefaultsOfFixedClass ==
    \A r \in Runs :
        (UsesDefaults(r) /\ endpoint[r] # "uncensored-video") =>
            /\ slept[r] = sleeps[r] * DocumentedInterval(JobClass(r))
            /\ checks[r] <= DocumentedMaxAttempts(JobClass(r))
            /\ outcome[r].kind = "timed-out" =>
                   /\ checks[r] = DocumentedMaxAttempts(JobClass(r))
                   /\ outcome[r].attempts = DocumentedMaxAttempts(JobClass(r))

\* A video job polled directly on UncensoredAI gives up after 60 checks.
C13_VideoGivesUpAtSixty ==
    \E r \in Runs :
        /\ UsesDefaults(r)
        /\ endpoint[r] = "uncensored-video"
        /\ outcome[r].kind = "timed-out"
        /\ checks[r] = 60
        /\ slept[r] = 59 * 3000

\* ----------------------------------------------------------------------- C11
\* An answer that carries a terminal status: success or failed.
Terminal(p, a) == a.ok /\ a.status \in {SuccessLiteral(p), FailureLiteral(p)}

\* Status checks issued so far on the job of the send, by generate's poll and
\* by send's own poll.
ChecksIssued == checks[1] + checks[2]

Sending == sendPc \notin {"unused", "idle"}

\* C11: within one chat.send routed to a polling provider, once a status
\* check has returned a terminal status (success or failed) no further
\* status check is issued: the terminal answer is the last check of the send.
C11_NoCheckAfterTerminal ==
    Sending =>
        \A i \in 1..Len(script[1]) :
            Terminal(ServiceOf(parsed.provider), script[1][i]) => ChecksIssued = i

\* The same for the routes whose generate does not poll.
C11_FluxWanStopAtTerminal ==
    (Sending /\ parsed.provider \in {"flux", "wan"}) =>
        \A i \in 1..Len(script[1]) :
            Terminal(ServiceOf(parsed.provider), script[1][i]) => ChecksIssued = i

\* ----------------------------------------------------------------------- C12
\* C12: uncensoredAI.generate starts the job and returns at once: up to the
\* moment it settles it has made exactly one HTTP call, its POST, no status
\* check, and it has never slept.
C12_GenerateOnlyPosts ==
    (Sending /\ parsed.provider = "uncensored-ai") =>
        /\ posts = 1
        /\ sendPc # "generate-poll"
        /\ checks[1] = 0
        /\ sleeps[1] = 0

\* Flux.generate and Wan.generate, which it is said to mirror.
C12_FluxWanGenerateOnlyPosts ==
    (Sending /\ parsed.provider \in {"flux", "wan"}) =>
        /\ posts = 1
        /\ sendPc # "generate-poll"
        /\ checks[1] = 0
        /\ sleeps[1] = 0

\* ------------------------------------------- terms of the decoder's claims
Streaming == gen \in {"reading", "suspended"}
Completed == gen = "ended" /\ exit = "completed"

\* The bytes the reader has delivered so far.
Received == SubSeq(wire, 1, sent)

\* The text of a whole sequence of bytes, decoded in one piece.
TextOf(bytes) == decode(bytes).text

\* The newline-terminated lines of a text, found by the places of its
\* newlines: what follows the last newline is no line.
Newlines(text) == {i \in 1..Len(text) : text[i] = "\n"}
LineStart(text, i) ==
    IF \E j \in Newlines(text) : j < i
    THEN 1 + CHOOSE j \in Newlines(text) : j < i /\ \A k \in Newlines(text) : k < i => k <= j
    ELSE 1
TerminatedLines(text) ==
    [n \in 1..Cardinality(Newlines(text)) |->
        LET i == CHOOSE j \in Newlines(text) :
                     Cardinality({k \in Newlines(text) : k <= j}) = n
        IN  SubSeq(text, LineStart(text, i), i - 1)]

\* What follows the last newline of a text.
Remainder(text) ==
    IF Newlines(text) = {} THEN text
    ELSE Drop(text, CHOOSE j \in Newlines(text) : \A k \in Newlines(text) : k <= j)

\* The chunks the lines ls yield when taken one after the other.
RECURSIVE EventsOf(_)
EventsOf(ls) ==
    IF ls = <<>> THEN <<>>
    ELSE (IF processLine(Head(ls)).kind = "yield"
          THEN <<processLine(Head(ls)).value>> ELSE <<>>) \o EventsOf(Tail(ls))

\* The chunks of a body that arrives in one piece.
WholeBodyEvents(bytes) == EventsOf(TerminatedLines(TextOf(bytes)))

IsPrefix(s, t) == Len(s) <= Len(t) /\ SubSeq(t, 1, Len(s)) = s

\* The parsed values of the lines of the pool.
ValueA1 == <<"{", "\"", "a", "\"", ":", "1", "}">>
Value2 == <<"2">>
ValueAccent == <<"\"", "é", "\"">>

\* ----------------------------------------------------------------------- C14
\* C14: what the decoder yields does not depend on how the body is cut into
\* chunks.  Whatever the chunking, after the bytes received so far the
\* chunks yielded and still to be yielded from the current chunk are those of
\* the same bytes arriving in one piece, the buffer holds the text after
\* their last newline, and a stream read to its end has yielded the chunks
\* of the whole body; `data: {"a":1}\n` yields exactly the one event {"a":1}.
C14_ChunkingIndependent ==
    /\ Streaming =>
          /\ yielded \o EventsOf(lines) = WholeBodyEvents(Received)
          /\ buffer = Remainder(TextOf(Received))
    /\ Completed => yielded = WholeBodyEvents(wire)
    /\ (Completed /\ wire = ExampleBody) => yielded = <<ValueA1>>

\* The example body has been read to its end after a chunk boundary inside
\* the `data: ` prefix of its line.
C14_Witness ==
    /\ Completed
    /\ wire = ExampleBody
    /\ seam = "prefix"
    /\ yielded = <<ValueA1>>

\* A line cut inside its JSON text, and a line cut inside a character.
C14_CutInsideJson == Completed /\ wire = ExampleBody /\ seam = "json"
C14_CutInsideCharacter ==
    Completed /\ wire = TwoLineBody /\ seam = "character"

\* ----------------------------------------------------------------------- C15
\* A well-formed data line that is not the sentinel: after trimming it is
\* `data: ` followed by a JSON text.
WellFormed(line) ==
    /\ startsWith(trim(line), DataPrefix)
    /\ trim(line) # DoneLine
    /\ JSONparse(Drop(trim(line), Len(DataPrefix))).ok

WellFormedLines(bytes) ==
    {n \in DOMAIN TerminatedLines(TextOf(bytes)) :
        WellFormed(TerminatedLines(TextOf(bytes))[n])}

\* C15: a malformed `data: ` line never ends the stream: no exception of
\* the parser leaves the generator, every well-formed line before and after
\* it yields its event, and a stream read to its end has yielded as many
\* events as it has well-formed data lines other than the sentinel (a
\* well-formed, a malformed and a well-formed line yield two events).
C15_MalformedLineSkipped ==
    /\ exit # "error"
    /\ Streaming =>
          Len(yielded) + Len(EventsOf(lines)) = Cardinality(WellFormedLines(Received))
    /\ Completed => Len(yielded) = Cardinality(WellFormedLines(wire))
    /\ (Completed /\ wire = MalformedBetween) => yielded = <<ValueA1, Value2>>

\* The body with the malformed line in the middle has been read to its end.
C15_Witness ==
    /\ Completed
    /\ wire = MalformedBetween
    /\ Len(yielded) = 2

\* ----------------------------------------------------------------------- C16
\* A line that is neither blank after trimming nor exactly `data: [DONE]`.
Meaningful(line) == trim(line) # <<>> /\ line # DoneLine

MeaningfulLines(bytes) == SelectSeq(TerminatedLines(TextOf(bytes)), Meaningful)

\* C16: blank lines and `data: [DONE]` lines produce no event and no error:
\* the decoder yields what it would yield for the body without them, and no
\* exception leaves it (a valid line followed by blank lines and the
\* sentinel yields exactly one event).
C16_BlankAndDoneSkipped ==
    /\ exit # "error"
    /\ Streaming => yielded \o EventsOf(lines) = EventsOf(MeaningfulLines(Received))
    /\ Completed => yielded = EventsOf(MeaningfulLines(wire))
    /\ (Completed /\ wire = BlanksAndDone) => yielded = <<ValueA1>>

\* The body of a valid line, two blank lines and the sentinel has been read
\* to its end.
C16_Witness ==
    /\ Completed
    /\ wire = BlanksAndDone
    /\ Len(TerminatedLines(TextOf(wire))) = 4
    /\ Len(MeaningfulLines(wire)) = 1
    /\ yielded = <<ValueA1>>

\* ----------------------------------------------------------------------- C17
\* The ways a generator that holds the reader is left: the stream ended, the
\* consumer left its loop, the consumer's loop body threw, a read failed.
ExitPaths == {"completed", "break", "raise", "read-error"}

\* C17: a streaming iteration that acquired the reader releases it exactly
\* once on every exit path: not while the iteration is under way, once when
\* it has ended in any of the four ways, never twice.
C17_ReleasedExactlyOnce ==
    /\ acquired \in {0, 1}
    /\ released <= acquired
    /\ Streaming => (acquired = 1 /\ released = 0)
    /\ gen = "ended" => released = acquired
    /\ (gen = "ended" /\ exit \in ExitPaths) => (acquired = 1 /\ released = 1)

\* The consumer's loop body threw after a first chunk, and the reader has
\* been released.
C17_Witness ==
    /\ gen = "ended"
    /\ exit = "raise"
    /\ Len(yielded) = 1
    /\ acquired = 1
    /\ released = 1

\* ----------------------------------------------------------------------- C18
\* The well-formed lines of a body, in the order of the body.
WellFormedInOrder(bytes) == SelectSeq(TerminatedLines(TextOf(bytes)), WellFormed)

\* The value carried by a well-formed line.
ValueOf(line) == JSONparse(Drop(trim(line), Len(DataPrefix))).value

\* C18: events are yielded in the order of their source lines, across chunk
\* boundaries and within one chunk, none duplicated and none dropped: the
\* k-th event yielded is the value of the k-th well-formed line of the
\* body, and a stream read to its end has yielded one event for each.
C18_EventsInSourceOrder ==
    LET sources == WellFormedInOrder(wire)
    IN  /\ Len(yielded) <= Len(sources)
        /\ \A k \in 1..Len(yielded) : yielded[k] = ValueOf(sources[k])
        /\ gen = "reading" => Len(yielded) = Len(WellFormedInOrder(Received))
        /\ Completed => Len(yielded) = Len(sources)

\* Two lines with different values have been read to the end, cut by a
\* chunk boundary inside a line.
C18_Witness ==
    /\ Completed
    /\ wire = TwoLineBody
    /\ seam # "none"
    /\ yielded = <<ValueA1, ValueAccent>>

\* The same two lines arrived in one chunk: the first is yielded, the second
\* is still to come.
C18_BothInOneChunk ==
    /\ gen = "suspended"
    /\ wire = TwoLineBody
    /\ yielded = <<ValueA1>>
    /\ EventsOf(lines) = <<ValueAccent>>

\* ----------------------------------------------------------------------- C19
\* The body `data: 2` without a newline, and the body of a terminated line
\* followed by it.
OnlyFragment == Body(<<>>, NumberLine)
LineThenFragment == Body(<<ValidLine>>, NumberLine)

\* C19: at the end of the stream the text after the last newline is
\* discarded: it is still in the buffer, it has yielded no event and raised
\* no error even when it is a complete `data: <json>`, and every
\* newline-terminated line has been processed.
C19_TrailingTextDiscarded ==
    /\ gen = "ended" => exit # "error"
    /\ Completed =>
          /\ buffer = Remainder(TextOf(wire))
          /\ yielded = WholeBodyEvents(wire)
          /\ wire = OnlyFragment => yielded = <<>>
          /\ wire = LineThenFragment => yielded = <<ValueA1>>

\* A stream whose last text is a well-formed data line without its newline
\* has been read to its end.
C19_Witness ==
    /\ Completed
    /\ wire = LineThenFragment
    /\ WellFormed(Remainder(TextOf(wire)))
    /\ buffer = NumberLine
    /\ yielded = <<ValueA1>>

\* ----------------------------------------------------------------------- C20
\* C20: each event is yielded as soon as its line is complete.  While a
\* read is in flight nothing is held back: every event of the lines received
\* so far has been pulled and no line waits in `lines`; and whatever has been
\* yielded, or waits at a yield, comes from bytes already received, so that
\* it does not depend on a later chunk arriving.
C20_YieldedBeforeNextRead ==
    /\ gen = "reading" =>
          /\ lines = <<>>
          /\ yielded = WholeBodyEvents(Received)
    /\ gen = "suspended" =>
          /\ yielded # <<>>
          /\ IsPrefix(yielded \o EventsOf(lines), WholeBodyEvents(Received))

\* A chunk brought two valid lines while more of the body is still to come:
\* the first event has been pulled, the second waits, no read is in flight.
C20_Witness ==
    /\ gen = "suspended"
    /\ sent < Len(wire)
    /\ Len(yielded) = 1
    /\ EventsOf(lines) # <<>>

\* ----------------------------------------------------------------------- C21
\* The ways the iteration ends with an error that the byte source caused (a
\* read that rejects, a body that cannot be read), and the ways the
\* consumer itself ends it.
SourceFailures == {"read-error", "not-readable"}
ConsumerExits == {"break", "raise"}

Range(f) == {f[i] : i \in DOMAIN f}

\* A body of a malformed line, a line without the prefix and a partial line.
MixedBody == Body(<<MalformedLine, NoSpaceLine>>, NumberLine)

\* C21: decoding has no failure of its own.  Whatever the body holds, no
\* exception leaves the generator because of a line (no piece of the body
\* makes the loop throw, a pending read has bytes or the end to deliver, and
\* the loop goes on to the next line or the next read after a yield), an
\* iteration that neither the consumer nor the byte source ended has ended
\* normally with every byte read, and a failure of the byte source ends it.
C21_NoDecodingFailure ==
    /\ exit \in {"none", "completed"} \cup ConsumerExits \cup SourceFailures
    /\ gen = "reading" => sent <= Len(wire)
    /\ gen = "suspended" => forLines(lines).gen \in {"reading", "suspended"}
    /\ gen = "created" =>
          \A line \in Range(split(TextOf(wire))) :
             processLine(line).kind \in {"yield", "nothing"}
    /\ (gen = "ended" /\ exit \notin ConsumerExits \cup SourceFailures) =>
          (exit = "completed" /\ sent = Len(wire))
    /\ exit \in SourceFailures => gen = "ended"

\* The mixed body has been read to its end, and nothing was yielded.
C21_Witness ==
    /\ Completed
    /\ wire = MixedBody
    /\ yielded = <<>>

\* A read failed after a first chunk was yielded.
C21_ReadFailedAfterEvent ==
    /\ gen = "ended"
    /\ exit = "read-error"
    /\ Len(yielded) = 1

\* ----------------------------------------------------------------------- C22
\* The lines of a body that start, after trimming, with `data: `.
HasDataPrefix(line) == startsWith(trim(line), DataPrefix)
DataLines(bytes) == SelectSeq(TerminatedLines(TextOf(bytes)), HasDataPrefix)

\* C22: a complete line that does not start with `data: ` after trimming
\* (`: ping`, `event: x`, `id: 1`, `data:` without the space) is ignored: it
\* yields no event and raises no error, and the decoder yields what it
\* would yield for the body without such lines (`event: x`, a valid line,
\* `id: 1` and `data: 2` yield the two events of the data lines).
C22_OtherFieldsIgnored ==
    /\ \A line \in OtherFields : ~HasDataPrefix(line) /\ processLine(line) = Nothing
    /\ exit # "error"
    /\ Streaming => yielded \o EventsOf(lines) = EventsOf(DataLines(Received))
    /\ Completed => yielded = EventsOf(DataLines(wire))
    /\ (Completed /\ wire = FieldsBetween) => yielded = <<ValueA1, Value2>>

\* The body with `event: x` and `id: 1` around its data lines has been read
\* to its end.
C22_Witness ==
    /\ Completed
    /\ wire = FieldsBetween
    /\ Len(TerminatedLines(TextOf(wire))) = 4
    /\ Len(DataLines(wire)) = 2
    /\ yielded = <<ValueA1, Value2>>

\* A keep-alive comment and `data:` without its space have been read to the
\* end, and nothing was yielded.
C22_OnlyOtherFields ==
    /\ Completed
    /\ wire = Body(<<PingLine, NoSpaceLine>>, <<>>)
    /\ yielded = <<>>

\* ----------------------------------------------------------------------- C23
\* C23: constructing the client without an apiKey (the property absent or
\* the empty string) throws 'API key is required', and then there is no
\* client, no Chat service and no call of one; with a non-empty apiKey the
\* constructor returns a client whose chat is a Chat instance, whether a
\* timeout is given or not.
C23_ApiKeyRequired ==
    clientPc # "new" =>
       IF "apiKey" \notin clientConfig.has \/ clientConfig.apiKey = ""
       THEN /\ client = Thrown("API key is required")
            /\ client.chat # "Chat"
            /\ clientPc = "done"
            /\ calls = <<>> /\ signals = <<>> /\ settled = Settled("pending", "")
       ELSE /\ client.state = "constructed"
            /\ client.chat = "Chat"

\* The constructor has thrown on the empty apiKey of a config that carries
\* a timeout.
C23_Witness ==
    /\ clientConfig.has = {"apiKey", "timeout"}
    /\ clientConfig.apiKey = ""
    /\ clientConfig.timeout = ClientTimeout
    /\ client = Thrown("API key is required")

\* The client has been constructed with a timeout, and without one.
C23_ConstructedWithTimeout ==
    /\ client = Constructed
    /\ clientConfig.has = {"apiKey", "timeout"}
    /\ clientConfig.timeout = ClientTimeout
C23_ConstructedWithoutTimeout ==
    /\ client = Constructed
    /\ clientConfig.has = {"apiKey"}

\* ----------------------------------------------------------------------- C24
\* chat.send has been called with a model that has no provider prefix.
StandardRoute ==
    /\ clientPc \notin {"unused", "new", "ready"}
    /\ client = Constructed
    /\ parseModelName(request.model).provider = "null"
RequestFailed == Settled("rejected", "EternalAI request failed with status <status>: <text>")

\* C24 as stated: on the standard route send issues exactly one HTTP
\* request; whenever the response status is not OK send rejects with
\* 'EternalAI request failed with status <status>: <body text>', and when
\* fetch itself rejects send rejects with that error.
C24_StandardRouteErrors ==
    StandardRoute =>
       /\ Len(calls) = 1 /\ Len(signals) = 1
       /\ calls[1].backend = "chat/completions"
       /\ (clientPc = "done" /\ response.received /\ ~ response.ok) =>
             settled = RequestFailed
       /\ (clientPc = "done" /\ ~ response.received) =>
             /\ settled.kind = "rejected"
             /\ settled.error \in RejectionCauses(signals[1])

\* C24, amended: on the standard route send issues exactly one HTTP request;
\* when the response status is not OK send returns neither a response nor a
\* stream: it rejects with 'EternalAI request failed with status <status>:
\* <body text>' if the text of the body can be read, and with the error of
\* response.text() if reading it fails; when fetch itself rejects send
\* rejects with that error.
C24_StandardRouteErrorsIfTextRead ==
    StandardRoute =>
       /\ Len(calls) = 1 /\ Len(signals) = 1
       /\ calls[1].backend = "chat/completions"
       /\ (response.received /\ ~ response.ok) =>
             /\ settled.kind \in {"pending", "rejected"}
             /\ clientPc = "done" =>
                   \/ settled = RequestFailed
                   \/ settled.kind = "rejected" /\ settled.error \in RejectionCauses(signals[1])
       /\ (clientPc = "done" /\ ~ response.received) =>
             /\ settled.kind = "rejected"
             /\ settled.error \in RejectionCauses(signals[1])

\* The response was not OK, its text was read, and send has rejected.
C24_Witness ==
    /\ StandardRoute
    /\ response.received /\ ~ response.ok
    /\ settled = RequestFailed
    /\ Len(signals) = 1

\* fetch itself rejected, and send rejected with its error.
C24_NetworkError ==
    /\ StandardRoute
    /\ ~ response.received
    /\ settled = Settled("rejected", "network")

\* ----------------------------------------------------------------------- C25
\* C25: a streaming request on the standard route whose response is OK but
\* has no body is refused by send itself: its promise rejects with
\* 'Response body is not readable', no generator is created (so nothing is
\* left to fail at the first iteration) and no reader is acquired; a reader
\* is acquired only from a response that has a body.
C25_UnreadableBodyAtSend ==
    StandardRoute =>
       /\ (streams(request) /\ response.received /\ response.ok /\ ~ response.body) =>
             /\ settled = Settled("rejected", "Response body is not readable")
             /\ clientPc = "done"
             /\ gen = "unused"
             /\ acquired = 0
       /\ acquired > 0 => (response.received /\ response.ok /\ response.body)
       /\ settled.kind = "iterable" => response.body

\* The response of a streaming request was OK without a body.
C25_Witness ==
    /\ StandardRoute
    /\ streams(request)
    /\ response = [received |-> TRUE, ok |-> TRUE, body |-> FALSE]
    /\ settled = Settled("rejected", "Response body is not readable")

\* The response had a body: send returned the iterable, and the consumer's
\* first pull acquired the reader.
C25_ReaderAcquired ==
    /\ StandardRoute
    /\ settled.kind = "iterable"
    /\ gen = "reading"
    /\ acquired = 1

C26_NoTimeoutNoSignal ==
    /\ "timeout" \notin clientConfig.has
    /\ signals = <<[armed |-> FALSE, delay |-> 0]>>
C26_ZeroTimeoutNoSignal ==
    /\ "timeout" \in clientConfig.has
    /\ clientConfig.timeout = 0
    /\ signals = <<[armed |-> FALSE, delay |-> 0]>>

\* ----------------------------------------------------------------------- C27
\* The prefixes a model starts with, and the backend and the model name the
\* claim names for a model.
Matching(model) == {k \in DOMAIN PREFIX : startsWith(model, PREFIX[k])}
ClaimedBackend(model) ==
    IF Matching(model) = {} THEN "chat/completions"
    ELSE PREFIX[CHOOSE k \in Matching(model) : TRUE][1]
ClaimedModel(model) ==
    IF Matching(model) = {} THEN model
    ELSE Drop(model, Len(PREFIX[CHOOSE k \in Matching(model) : TRUE]))

\* C27: chat.send routes by model prefix.  No model starts with two of the
\* prefixes, and every call send makes goes to the backend of the prefix the
\* model starts with, for the remainder of the model after the prefix, or
\* to chat/completions with the model unchanged when no prefix matches.
C27_RoutesByPrefix ==
    /\ \A m \in Models : Cardinality(Matching(m)) <= 1
    /\ \A i \in DOMAIN calls :
          /\ calls[i].backend = ClaimedBackend(request.model)
          /\ calls[i].model = ClaimedModel(request.model)

\* What holds: every call goes to the one backend the claim names, and
\* every call other than UncensoredAI.generate is made for the remainder.
C27_OneBackend ==
    /\ \A m \in Models : Cardinality(Matching(m)) <= 1
    /\ \A i \in DOMAIN calls :
          /\ calls[i].backend = ClaimedBackend(request.model)
          /\ (calls[i].backend # "uncensored-ai" \/ calls[i].method # "generate") =>
                calls[i].model = ClaimedModel(request.model)

\* A model that resembles a prefixed one went to chat/completions unchanged.
C27_NoPrefixMatched ==
    /\ request.model = <<"Flux", "/", "flux-2-pro">>
    /\ calls = <<Call("chat/completions", "fetch", request.model)>>

\* ----------------------------------------------------------------------- C28
\* send has returned.
SendReturned == settled.kind \in {"response", "iterable"}

\* C28: whenever send returns, it returns an AsyncIterable if request.stream
\* is true and a single ChatCompletionResponse otherwise, whatever the model.
C28_StreamSelectsIterable ==
    SendReturned => (settled.kind = "iterable" <=> streams(request))

\* What holds: on the standard route and on the glm, mistralai and
\* nano-banana routes the result follows request.stream; the other routes
\* return a single response.
C28_StreamingRoutesOnly ==
    SendReturned =>
       IF parseModelName(request.model).provider \in {"null", "glm", "mistralai", "nano-banana"}
       THEN settled.kind = "iterable" <=> streams(request)
       ELSE settled.kind = "response"

\* A streaming request on the standard route and on the glm route returned
\* an iterable.
C28_StandardIterable ==
    /\ StandardRoute
    /\ streams(request)
    /\ settled.kind = "iterable"
C28_GlmIterable ==
    /\ parseModelName(request.model).provider = "glm"
    /\ streams(request)
    /\ settled.kind = "iterable"


\* ------------------------------------------------------------------ C29
\* The four ways the claim lets a pollResult call end.
FourOutcomes == {"returned", "generation-failed", "timed-out", "transport-error"}

\* What call r returned is the response of its last status check, and that
\* response carries the provider's success status.
ReturnsLastSuccess(r) ==
    outcome[r].kind = "returned"
    => /\ LastCheckReturned(r)
       /\ outcome[r] = Returned(result[r])
       /\ IsSuccess(provider[r], result[r])
       /\ result[r].status = SuccessLiteral(provider[r])

\* C29: a settled pollResult call has returned a result, or rejected with
\* generation-failed, timed-out or the transport error of a status check;
\* whatever it returned is the result of its last status check and carries
\* the provider's success status.
C29_FourOutcomes ==
    \A r \in Runs :
        /\ (Done(r) => outcome[r].kind \in FourOutcomes)
        /\ ReturnsLastSuccess(r)

\* The fifth outcome is the exception of a throwing observer and nothing
\* else: a call that ends outside the four outcomes was given an observer
\* that threw on the last check, and only a success-status result of the
\* last check is ever returned.
C29_FifthOutcomeIsObserverException ==
    \A r \in Runs :
        /\ (Done(r) => outcome[r].kind \in FourOutcomes \cup {"callback-error"})
        /\ (outcome[r].kind = "callback-error"
            => onStatusUpdate(options[r]) /\ Len(observed[r]) = checks[r])
        /\ ReturnsLastSuccess(r)

\* A call whose observer threw has settled with the observer's exception.
C29_RejectedWithObserverException ==
    \E r \in Runs : Done(r) /\ outcome[r] = CallbackError


\* ------------------------------------------------------------------ C30
\* Call r has been made.
Called(r) == pc[r] # "idle"

\* The largest numbers of status checks and of sleeps a call with
\* maxAttempts = max can make.
CheckCeiling(max) == IF max >= 1 THEN max ELSE 0
SleepCeiling(max) == IF max >= 1 THEN max - 1 ELSE 0

\* C30 as stated: every pollResult call that is made eventually settles, and
\* it never makes more than maxAttempts status checks nor starts more than
\* maxAttempts - 1 sleeps.
C30_TerminatesWithinMaxAttempts ==
    /\ \A r \in Runs : Called(r) ~> Done(r)
    /\ [](\A r \in Runs :
             Called(r) => checks[r] <= Max(r) /\ sleeps[r] <= Max(r) - 1)

\* C30 amended: every pollResult call that is made eventually settles, and it
\* never makes more than maxAttempts status checks nor starts more than
\* maxAttempts - 1 sleeps, or more than none of either when maxAttempts is 0
\* or negative.
C30_Terminates ==
    /\ \A r \in Runs : Called(r) ~> Done(r)
    /\ [](\A r \in Runs :
             Called(r) => /\ checks[r] <= CheckCeiling(Max(r))
                          /\ sleeps[r] <= SleepCeiling(Max(r))
                          /\ (Done(r) => outcome[r].kind # "unsettled"))

\* A call has settled by timing out after maxAttempts >= 2 checks and
\* maxAttempts - 1 sleeps, every check answered with a waiting status.
C30_Witness ==
    \E r \in Runs :
        /\ Done(r)
        /\ Max(r) >= 2
        /\ outcome[r] = TimedOut(Max(r))
        /\ checks[r] = Max(r)
        /\ sleeps[r] = Max(r) - 1

\* A call with maxAttempts = 0 has settled: no check, no sleep.
C30_NoAttemptAllowed ==
    \E r \in Runs : Done(r) /\ Max(r) = 0 /\ checks[r] = 0 /\ sleeps[r] = 0

\* ------------------------------------------------------------------ C31
\* A status check of call r is in flight.
InFlight(r) == pc[r] = "getResult"

\* C31: within one pollResult call at most one status check is in flight
\* (while the check of attempt n is awaited every earlier check has been
\* answered, and no check is issued while one is awaited), the status check
\* of attempt i + 1 starts only after the check of attempt i has returned,
\* its observer call has finished and its sleep has elapsed, and the attempt
\* counter takes the values 1, 2, ... one after the other.
C31_AttemptsSequential ==
    /\ [](\A r \in Runs :
             /\ InFlight(r) => result[r].n = checks[r] - 1 /\ attempt[r] = checks[r]
             /\ pc[r] \in {"notify", "decide", "sleep"}
                => result[r].n = checks[r] /\ attempt[r] = checks[r])
    /\ [][\A r \in Runs :
          /\ attempt'[r] # attempt[r] => attempt'[r] = attempt[r] + 1
          /\ checks'[r] # checks[r]
             => /\ checks'[r] = checks[r] + 1
                /\ attempt'[r] = checks'[r]
                /\ ~ InFlight(r) /\ InFlight(r)'
                /\ pc[r] \in {"idle", "sleep"}
                /\ checks[r] >= 1
                   => /\ pc[r] = "sleep"
                      /\ result[r].n = checks[r]
                      /\ sleeps[r] = checks[r]
                      /\ onStatusUpdate(options[r])
                         => /\ Len(observed[r]) = checks[r]
                            /\ observed[r][checks[r]][2] = checks[r]]_vars

\* The third status check of a call with an observer is in flight: two
\* checks were answered, observed and slept after.
C31_Witness ==
    \E r \in Runs :
        /\ InFlight(r)
        /\ onStatusUpdate(options[r])
        /\ attempt[r] = 3 /\ checks[r] = 3
        /\ sleeps[r] = 2
        /\ Len(observed[r]) = 2

\* ------------------------------------------------------------------ C32
\* The outcome of a pollResult call of provider p with options o that runs
\* alone, is given the answers ans and whose observer does not throw: that
\* of the first answer within maxAttempts that is a failed request or carries
\* the success or the failure literal, else the timed-out error.
AloneOutcome(p, o, ans) ==
    LET max == maxAttempts(p, o)
        Res(i) == Response(ans[i].status, ans[i].detail, i)
        Ends(i) == \/ ~ ans[i].ok
                   \/ IsSuccess(p, Res(i))
                   \/ IsFailed(p, Res(i))
        ending == {i \in 1..Len(ans) : i <= max /\ Ends(i)}
    IN  IF ending = {} THEN TimedOut(max)
        ELSE LET k == CHOOSE i \in ending : \A j \in ending : i <= j
             IN  IF ~ ans[k].ok THEN TransportError(ans[k].cause)
                 ELSE IF IsSuccess(p, Res(k)) THEN Returned(Res(k))
                 ELSE GenerationFailed(FailureMessage(p, Res(k)))

\* What belongs to call r alone.
CallState(r) == <<pc[r], attempt[r], result[r], checks[r], sleeps[r], slept[r],
                  observed[r], outcome[r]>>

\* What the first and the second invocation have received of their streams.
ReceivedBy(o) == SubSeq(o.wire, 1, o.sent)

C32_CallsAtDifferentAttempts ==
    \E r, q \in Runs :
        /\ pc[r] = "getResult" /\ pc[q] = "sleep"
        /\ attempt[r] = 2 /\ attempt[q] = 1

\* ------------------------------------------------------------------ C33
\* The status of response res is neither literal the loop of provider p
\* compares it with.
Unrecognised(p, res) == ~ IsSuccess(p, res) /\ ~ IsFailed(p, res)

\* Every status check call r has made was answered with a response whose
\* status is neither literal.
AllChecksUnrecognised(r) ==
    /\ Len(AnswersOf(r)) >= checks[r]
    /\ \A i \in 1..checks[r] :
          /\ AnswersOf(r)[i].ok
          /\ Unrecognised(provider[r],
                          Response(AnswersOf(r)[i].status, AnswersOf(r)[i].detail, i))

\* A Wan response without task_status is reported to the observer as
\* 'UNKNOWN'.
MissingStatusIsUnknown(r) ==
    \A i \in 1..Len(observed[r]) :
        (provider[r] = "Wan" /\ AnswersOf(r)[i].status \in {Undefined, ""})
        => observed[r][i] = <<"UNKNOWN", i>>

\* C33: a status that is neither the success nor the failure literal is
\* treated as still in progress: the call neither returns nor fails on it,
\* and a call all of whose checks report such statuses makes maxAttempts
\* checks and rejects with the timed-out error; Wan reports a missing
\* task_status to the observer as 'UNKNOWN'.
C33_UnrecognisedIsInProgress ==
    \A r \in Runs :
        /\ (LastCheckReturned(r) /\ Unrecognised(provider[r], result[r]))
           => outcome[r].kind \notin {"returned", "generation-failed"}
        /\ (Done(r) /\ AllChecksUnrecognised(r))
           => checks[r] = Max(r) /\ outcome[r] = TimedOut(Max(r))
        /\ MissingStatusIsUnknown(r)

\* C33 holds of every call whose observer does not throw.
C33_UnlessObserverThrows ==
    \A r \in Runs :
        /\ (LastCheckReturned(r) /\ Unrecognised(provider[r], result[r]))
           => outcome[r].kind \notin {"returned", "generation-failed"}
        /\ (Done(r) /\ AllChecksUnrecognised(r) /\ outcome[r] # CallbackError)
           => checks[r] = Max(r) /\ outcome[r] = TimedOut(Max(r))
        /\ MissingStatusIsUnknown(r)

\* A call has timed out after checks that reported a status outside the
\* provider's declared waiting statuses.
C33_TimedOutOnUnknownStatus ==
    \E r \in Runs :
        /\ Done(r) /\ outcome[r] = TimedOut(Max(r))
        /\ Max(r) >= 2
        /\ \A i \in 1..checks[r] :
              AnswersOf(r)[i].status \notin WaitingStatuses(provider[r])

\* ------------------------------------------------------------------ C34
\* C34: with maxAttempts <= 0 pollResult makes no status check, never
\* invokes onStatusUpdate, never sleeps, and rejects at once (in the step
\* that makes the call) with the timed-out error naming that maxAttempts.
C34_NoAttemptAllowed ==
    /\ [](\A r \in Runs :
             Max(r) <= 0
             => /\ checks[r] = 0 /\ sleeps[r] = 0 /\ slept[r] = 0
                /\ observed[r] = <<>>
                /\ pc[r] \in {"idle", "done"}
                /\ Done(r) => outcome[r] = TimedOut(Max(r)))
    /\ [][\A r \in Runs :
             (Max(r) <= 0 /\ pc[r] = "idle" /\ pc'[r] # "idle")
             => pc'[r] = "done" /\ outcome'[r] = TimedOut(Max(r))]_vars

\* A call with maxAttempts = 0 and an observer has rejected with the
\* timed-out error after 0 attempts.
C34_Witness ==
    \E r \in Runs :
        /\ Max(r) = 0
        /\ onStatusUpdate(options[r])
        /\ Done(r)
        /\ outcome[r] = TimedOut(0)
        /\ checks[r] = 0 /\ observed[r] = <<>>

\* A call with maxAttempts = -1 has rejected with the timed-out error
\* naming -1.
C34_NegativeMaxAttempts ==
    \E r \in Runs : Max(r) = -1 /\ Done(r) /\ outcome[r] = TimedOut(-1)

\* ------------------------------------------------------------------ C35
\* The body whose first line is the sentinel and whose second is a
\* well-formed data line.
DoneThenValid == Body(<<DoneLine, ValidLine>>, <<>>)

\* The sentinel is one of the lines received so far.
DoneReceived ==
    \E n \in DOMAIN TerminatedLines(TextOf(Received)) :
        trim(TerminatedLines(TextOf(Received))[n]) = DoneLine

\* C35: the `data: [DONE]` sentinel is skipped, not acted on.  After it the
\* generator still reads and yields: the iteration ends only when the source
\* reports its end or fails or the consumer leaves, every well-formed data
\* line yields its event whether it stands before or after the sentinel,
\* and the body `data: [DONE]\n` `data: {"a":1}\n` yields {"a":1}.
C35_DoneIsSkipped ==
    /\ gen = "ended" => exit \in {"completed"} \cup SourceFailures \cup ConsumerExits
    /\ Completed
       => /\ sent = Len(wire)
          /\ Len(yielded) = Cardinality(WellFormedLines(wire))
          /\ yielded = WholeBodyEvents(wire)
    /\ (Streaming /\ DoneReceived)
       => Len(yielded) + Len(EventsOf(lines)) = Cardinality(WellFormedLines(Received))
    /\ (Completed /\ wire = DoneThenValid) => yielded = <<ValueA1>>

\* The body with the sentinel first has been read to its end and the data
\* line after the sentinel has yielded its event.
C35_Witness ==
    /\ Completed
    /\ wire = DoneThenValid
    /\ yielded = <<ValueA1>>

\* ------------------------------------------------------------------ C36
\* The HTTP requests issued so far: every fetch is handed one signal.
Requests36 == Len(signals)

\* C36: on the generator routes chat.send resolves with the iterable before
\* any HTTP request is issued and never rejects; the request is issued by
\* the consumer's first next(), and a status that is not OK, a missing body
\* or a network error ends the generator at that first next() while the
\* promise of send stays resolved.  On the standard route send resolves only
\* after the request was issued and its response found OK.
C36_GeneratorRoutesAreLazy ==
    /\ [](/\ OnGeneratorRoute
             => /\ settled.kind \in {"pending", "iterable"}
                /\ (settled.kind = "pending" \/ gen = "unused")
                   => Requests36 = 0 /\ ~ response.received
                /\ (response.received /\ ~ (response.ok /\ response.body))
                   => /\ gen \in {"text", "ended"}
                      /\ acquired = 0
                      /\ gen = "ended"
                         => exit \in {"http-error", "not-readable", "network", "abort"}
                /\ (gen = "ended" /\ ~ response.received) => exit \in {"network", "abort"}
          /\ (StandardRoute /\ settled.kind \in {"iterable", "response"})
             => Requests36 = 1 /\ response.received /\ response.ok)
    /\ [][OnGeneratorRoute
          => /\ settled.kind = "pending" /\ settled'.kind # "pending"
                => settled'.kind = "iterable" /\ signals' = signals /\ gen' = "unused"
             /\ signals' # signals
                => settled.kind = "iterable" /\ gen = "unused" /\ gen' = "fetch"]_vars

\* The first next() on the iterable of a generator route has been rejected
\* because the response was not OK; send had resolved with the iterable.
C36_Witness ==
    /\ OnGeneratorRoute
    /\ settled.kind = "iterable"
    /\ Requests36 = 1
    /\ response.received /\ ~ response.ok
    /\ gen = "ended" /\ exit = "http-error"

\* The iterable of a generator route has been returned and not pulled from:
\* no request has been issued.
C36_ResolvedWithoutRequest ==
    OnGeneratorRoute /\ settled.kind = "iterable" /\ gen = "unused" /\ Requests36 = 0

\* The first next() has been rejected for a missing body, and for a failed
\* fetch.
C36_MissingBodyAtFirstNext ==
    OnGeneratorRoute /\ gen = "ended" /\ exit = "not-readable" /\ settled.kind = "iterable"
C36_NetworkErrorAtFirstNext ==
    OnGeneratorRoute /\ gen = "ended" /\ exit = "network" /\ ~ response.received


\* ---------------------------------------------------------------- C37
\* The timer of the k-th status check of run r, and the time the check has
\* been in flight.
Polling37 == pc[1] # "unused"
Aborted37(r) == outcome[r] = TransportError("abort")

\* C37: config.timeout bounds each HTTP request separately, not the
\* operation.  Every status check of a polling run arms a timer of its own
\* when it is issued (as many timers as checks, each with the delay of the
\* config, each armed no earlier than one interval after the one before), a
\* check is aborted only when its own timer has fired, and a run that is not
\* aborted may last longer than config.timeout.  The timer of a streaming
\* request is the one armed when the request was issued: it can fire while a
\* read of the body is pending, the read then fails, the generator ends with
\* that error and the reader is released exactly once.
C37_TimeoutPerRequest ==
    /\ [](/\ Polling37 =>
             /\ Len(timing.timers) = checks[1]
             /\ \A k \in 1..Len(timing.timers) :
                   /\ timing.timers[k].signal = createAbortSignal(clientConfig)
                   /\ timing.timers[k].at <= timing.now
                   /\ k > 1 => timing.timers[k].at >= timing.timers[k - 1].at + Interval(1)
             /\ Aborted37(1) => /\ timeoutGiven(clientConfig) /\ clientConfig.timeout # 0
                                /\ timing.now >= timing.timers[checks[1]].at + clientConfig.timeout
          /\ ~ Polling37 =>
             /\ Len(timing.timers) = 1
             /\ timing.timers[1] = [at |-> 0, signal |-> createAbortSignal(clientConfig)]
             /\ released <= acquired /\ acquired <= 1
             /\ exit = "abort" => /\ gen = "ended" /\ acquired = 1 /\ released = 1
                                  /\ timeoutGiven(clientConfig) /\ clientConfig.timeout # 0
                                  /\ timing.now >= clientConfig.timeout
                                  /\ yielded = WholeBodyEvents(Received))
    /\ [][/\ (~ Aborted37(1) /\ Aborted37(1)') =>
             /\ pc[1] = "getResult" /\ pc'[1] = "done"
             /\ timing' = timing /\ checks' = checks
          /\ (exit # "abort" /\ exit' = "abort") =>
             /\ gen = "reading" /\ released' = released + 1
             /\ yielded' = yielded /\ sent' = sent /\ timing' = timing]_vars

\* A polling run that ended without an abort after the delay of the config
\* had passed several times over: each of its three checks had its own timer.
C37_Witness ==
    /\ Polling37 /\ pc[1] = "done" /\ ~ Aborted37(1)
    /\ createAbortSignal(clientConfig).armed
    /\ checks[1] = MaxAttemptsBound
    /\ timing.now >= 2 * clientConfig.timeout
    /\ Fired(1) /\ Fired(2)

\* A check aborted by its own timer although it is not the first of the run.
C37_LaterCheckAborted ==
    /\ Aborted37(1) /\ checks[1] = 2
    /\ timing.timers[2].at > 0

\* The timer of a streaming request fired after events had been yielded.
C37_StreamAbortedMidBody ==
    /\ ~ Polling37 /\ exit = "abort"
    /\ sent > 0 /\ sent < Len(wire) /\ yielded # <<>>
    /\ released = 1


\* ---------------------------------------------------------------- C38
\* A read is pending on the reader.
ReadPending == gen = "reading"

\* C38: acquisitions and releases of the body reader stay balanced.  The
\* reader is acquired only by the consumer's first pull (an iterable that
\* has not been pulled from has acquired and released nothing), there are
\* never more releases than acquisitions and never more than one of either,
\* a read is pending or a chunk is held only on a reader acquired and not
\* released, and after the release no read is issued and no byte is taken
\* from the body.
C38_ReaderBalanced ==
    /\ [](/\ released <= acquired /\ acquired <= 1
          /\ gen = "created" => acquired = 0 /\ released = 0 /\ sent = 0
          /\ Streaming => acquired = 1 /\ released = 0
          /\ gen = "ended" => released = acquired
          /\ acquired = 0 => sent = 0 /\ yielded = <<>>)
    /\ [][/\ acquired' # acquired =>
             /\ gen = "created" /\ ReadPending' /\ acquired' = acquired + 1
             /\ released' = released
          /\ released' # released =>
             /\ Streaming /\ gen' = "ended" /\ released' = released + 1
             /\ acquired' = acquired
          /\ released >= 1 => /\ ~ ReadPending' /\ sent' = sent
                              /\ gen' = gen /\ released' = released
          /\ (~ ReadPending /\ ReadPending') \/ sent' # sent => released' = 0 \/ gen' = "ended"
          /\ sent' # sent => ReadPending /\ released = 0]_vars

\* A stream that was read, suspended, resumed and read to its end: one
\* acquisition, one release, after several reads.
C38_Witness ==
    /\ gen = "ended" /\ exit = "completed"
    /\ acquired = 1 /\ released = 1
    /\ sent = Len(wire) /\ Len(yielded) >= 2

\* An iterable whose body was not readable: pulled from once, no reader
\* acquired, none released.
C38_NotReadableNoReader ==
    /\ gen = "ended" /\ exit = "not-readable"
    /\ acquired = 0 /\ released = 0


\* ---------------------------------------------------------------- C39
\* The text the chunk just read added to the decoder's output, and the
\* characters of the lines ls with their newlines.
ChunkText == decode(held \o SubSeq(wire, sent + 1, sent')).text
RECURSIVE LengthWithNewlines(_)
LengthWithNewlines(ls) ==
    IF ls = <<>> THEN 0 ELSE Len(Head(ls)) + 1 + LengthWithNewlines(Tail(ls))
NoNewline(text) == \A i \in 1..Len(text) : text[i] # "\n"

\* C39: the line buffer of the stream decoder.  Whenever the decoder waits
\* for a read or is suspended at a yield, the buffer has no newline and is
\* the text received after the last newline (the whole text when there is
\* none).  Each read splits the old buffer followed by the new text into
\* the lines it completes and the new buffer, character for character: the
\* new buffer is what follows the last newline of that text, the chunks
\* yielded or still to be yielded grow by those of the completed lines, each
\* taken once, and outside a read the buffer does not change.
C39_LineBuffer ==
    /\ [](Streaming =>
             /\ NoNewline(buffer)
             /\ buffer = Remainder(TextOf(Received))
             /\ Len(TextOf(Received))
                   = LengthWithNewlines(TerminatedLines(TextOf(Received))) + Len(buffer)
             /\ \A i \in 1..Len(lines) : NoNewline(lines[i]))
    /\ [][/\ sent' # sent =>
             \A text \in {buffer \o ChunkText} :
             \A done \in {TerminatedLines(text)} :
                 /\ gen = "reading"
                 /\ buffer' = Remainder(text)
                 /\ NoNewline(buffer')
                 /\ LengthWithNewlines(done) + Len(buffer') = Len(text)
                 /\ lines = <<>>
                 /\ gen' # "ended" => yielded' \o EventsOf(lines') = yielded \o EventsOf(done)
          /\ sent' = sent => buffer' = buffer]_vars

\* A read has completed a line that began in the buffer and left the start
\* of the next line there: the decoder is suspended at the chunk of the
\* completed line with a buffer that is not empty.
C39_Witness ==
    /\ gen = "suspended"
    /\ buffer # <<>>
    /\ Newlines(TextOf(Received)) # {}
    /\ seam \in {"prefix", "json"}
    /\ yielded # <<>>

\* The decoder waits for a read with a buffer that holds a whole data line
\* but for its newline.
C39_WholeLineButNewline ==
    /\ gen = "reading"
    /\ sent < Len(wire)
    /\ wire[sent + 1] = "\n"
    /\ processLine(buffer).kind = "yield"

====
